---- MODULE Spec2Model ----
(***************************************************************************)
(* KillPhilosophy: the deep-search engine (src/deepsearch-api.js) and the  *)
(* record store it reads (src/database.js).                                *)
(*                                                                         *)
(* A JavaScript string is a sequence of one-character strings, so that     *)
(* toLowerCase, split, replace and includes are computed character by      *)
(* character.  A JavaScript object is a record; a property that is         *)
(* undefined is a field the record does not have.                          *)
(***************************************************************************)
EXTENDS Integers, Sequences, FiniteSets, TLC

VARIABLES
    academics,              \* DatabaseManager.academics: its properties in order
    noveltyTiles,           \* DatabaseManager.noveltyTiles
    pendingSubmissions,     \* DatabaseManager.pendingSubmissions
    favorites,              \* DatabaseManager.favorites
    localStorage,           \* the browser's localStorage: a record of its items
    databaseManagerDefined, \* typeof databaseManager !== 'undefined'
    apiKey,                 \* DeepSearchAPI.apiKey
    isInitialized,          \* DeepSearchAPI.isInitialized
    searchInProgress,       \* DeepSearchAPI.searchInProgress
    searchDepth,            \* DeepSearchAPI.searchDepth
    searchCache,            \* DeepSearchAPI.searchCache: its properties in order
    now,                    \* the clock new Date() reads
    timers,                 \* the setTimeout callbacks of demoSearch, oldest first
    requests,               \* the fetch requests of executeSearch in flight
    promises,               \* the promise of each executeSearch / demoSearch call
    runs,                   \* what each run of the demoSearch callback computed
    networks,               \* what each call of convertToNetworkData was given and returned
    handlers,               \* the calls of the run-deep-search click handler that await executeSearch
    deepSearchResults,      \* what the results panel shows
    submissionItems,        \* the items of the pending-submissions panel
    gitHubManager,          \* the fields of the GitHubAPIManager
    gitHubCalls             \* the calls of connectToRepo and how far each has got

(***************************************************************************)
(* Strings                                                                 *)
(***************************************************************************)
UpperCase == << "A","B","C","D","E","F","G","H","I","J","K","L","M",
                "N","O","P","Q","R","S","T","U","V","W","X","Y","Z" >>
LowerCase == << "a","b","c","d","e","f","g","h","i","j","k","l","m",
                "n","o","p","q","r","s","t","u","v","w","x","y","z" >>
Digits    == << "0","1","2","3","4","5","6","7","8","9" >>

Range(s) == { s[i] : i \in DOMAIN s }

\* String.prototype.toLowerCase, one character
LowerChar(c) ==
    IF \E i \in DOMAIN UpperCase : UpperCase[i] = c
    THEN LowerCase[CHOOSE i \in DOMAIN UpperCase : UpperCase[i] = c]
    ELSE c

\* String.prototype.toLowerCase
toLowerCase(s) == [i \in DOMAIN s |-> LowerChar(s[i])]

\* the regular expression class \s
IsSpace(c) == c \in {" ", "\t", "\n"}

\* the regular expression class \w
IsWordChar(c) == c \in Range(UpperCase) \cup Range(LowerCase) \cup Range(Digits) \cup {"_"}

\* String.prototype.includes: needle occurs in hay as a contiguous run;
\* the empty needle occurs in every string
includes(hay, needle) ==
    \E i \in 1..(Len(hay) - Len(needle) + 1) :
        SubSeq(hay, i, i + Len(needle) - 1) = needle

\* Array.prototype.includes
arrayIncludes(arr, v) == \E i \in DOMAIN arr : arr[i] = v

RECURSIVE DropSpaces(_)
DropSpaces(s) ==
    IF s # <<>> /\ IsSpace(Head(s)) THEN DropSpaces(Tail(s)) ELSE s

RECURSIVE DropSpacesRight(_)
DropSpacesRight(s) ==
    IF s # <<>> /\ IsSpace(s[Len(s)])
    THEN DropSpacesRight(SubSeq(s, 1, Len(s) - 1))
    ELSE s

\* String.prototype.trim
trim(s) == DropSpacesRight(DropSpaces(s))

\* String.prototype.split(/\s+/): the pieces between maximal runs of
\* whitespace; a leading or trailing run leaves an empty piece
RECURSIVE SplitFrom(_, _)
SplitFrom(s, piece) ==
    IF s = <<>> THEN << piece >>
    ELSE IF IsSpace(Head(s)) THEN << piece >> \o SplitFrom(DropSpaces(s), <<>>)
    ELSE SplitFrom(Tail(s), Append(piece, Head(s)))

splitWhitespace(s) == SplitFrom(s, <<>>)

\* String.prototype.replace(/[^\w]/g, '')
stripNonWord(s) == SelectSeq(s, IsWordChar)

\* the length a query word must exceed to become a keyword
MinWordLength == 3

\* word => word.length > 3
IsLongWord(word) == Len(word) > MinWordLength

\* demoSearch: query.toLowerCase().split(/\s+/).filter(...).map(...)
Keywords(query) ==
    LET words == SelectSeq(splitWhitespace(toLowerCase(query)), IsLongWord)
    IN  [i \in DOMAIN words |-> stripNonWord(words[i])]

(***************************************************************************)
(* Academics.  An academic is a record with the optional fields name, bio, *)
(* taxonomies, papers, events, connections.  taxonomies is the sequence of *)
(* its categories in property order, each with its array of values.        *)
(***************************************************************************)
Has(obj, field) == field \in DOMAIN obj

Min(a, b) == IF a < b THEN a ELSE b

\* academic.taxonomies[category]: the values, or <<>> with defined FALSE
HasCategory(taxonomies, category) ==
    \E i \in DOMAIN taxonomies : taxonomies[i].category = category

CategoryValues(taxonomies, category) ==
    taxonomies[CHOOSE i \in DOMAIN taxonomies : taxonomies[i].category = category].values

(***************************************************************************)
(* demoSearch: scoring                                                     *)
(***************************************************************************)
\* keywords.forEach(keyword => { if (text.includes(keyword)) score += 1 })
RECURSIVE CountHits(_, _)
CountHits(textLower, keywords) ==
    IF keywords = <<>> THEN 0
    ELSE (IF includes(textLower, Head(keywords)) THEN 1 ELSE 0)
         + CountHits(textLower, Tail(keywords))

\* texts.forEach(text => keywords.forEach(...)) over a list of strings
RECURSIVE CountHitsEach(_, _)
CountHitsEach(texts, keywords) ==
    IF texts = <<>> THEN 0
    ELSE CountHits(toLowerCase(Head(texts)), keywords)
         + CountHitsEach(Tail(texts), keywords)

\* keywords.forEach(keyword => { if (nameLower.includes(keyword)) score += 5 })
NameScoreEach(academic, keywords) ==
    5 * Cardinality({ k \in DOMAIN keywords :
                        includes(toLowerCase(academic.name), keywords[k]) })

\* keywords.some(keyword => nameLower.includes(keyword)); if (nameMatch) score += 5
NameScore(academic, keywords) ==
    IF \E k \in DOMAIN keywords : includes(toLowerCase(academic.name), keywords[k])
    THEN 5 ELSE 0

\* if (academic.bio) { keywords.forEach(... score += 2) }; '' is falsy
BioScore(academic, keywords) ==
    IF Has(academic, "bio") /\ academic.bio # <<>>
    THEN 2 * CountHits(toLowerCase(academic.bio), keywords)
    ELSE 0

\* for (const category in academic.taxonomies) values.forEach(... score += 3)
RECURSIVE TaxonomyHits(_, _)
TaxonomyHits(taxonomies, keywords) ==
    IF taxonomies = <<>> THEN 0
    ELSE CountHitsEach(Head(taxonomies).values, keywords)
         + TaxonomyHits(Tail(taxonomies), keywords)

TaxonomyScore(academic, keywords) ==
    IF Has(academic, "taxonomies")
    THEN 3 * TaxonomyHits(academic.taxonomies, keywords)
    ELSE 0

Titles(items) == [i \in DOMAIN items |-> items[i].title]

\* academic.papers.forEach(paper => keywords.forEach(... score += 1))
PapersScore(academic, keywords) ==
    IF Has(academic, "papers")
    THEN CountHitsEach(Titles(academic.papers), keywords)
    ELSE 0

\* academic.events.forEach(event => keywords.forEach(... score += 1))
EventsScore(academic, keywords) ==
    IF Has(academic, "events")
    THEN CountHitsEach(Titles(academic.events), keywords)
    ELSE 0

\* the value of score when one pass of academics.forEach reaches its end
Score(academic, keywords) ==
    NameScore(academic, keywords) + BioScore(academic, keywords)
    + TaxonomyScore(academic, keywords) + PapersScore(academic, keywords)
    + EventsScore(academic, keywords)

\* if (score > 0) matches.push({academic, score})
IsMatch(score) == score > 0

\* academic.name.toLowerCase() throws a TypeError when name is undefined
Throws(academic) == ~Has(academic, "name")

\* the academics the forEach has visited when it ends or throws
Visited(list) ==
    IF \E i \in DOMAIN list : Throws(list[i])
    THEN SubSeq(list, 1,
                (CHOOSE i \in DOMAIN list :
                    /\ Throws(list[i])
                    /\ \A j \in 1..(i - 1) : ~Throws(list[j])) - 1)
    ELSE list

Scores(list, keywords) ==
    [i \in DOMAIN list |-> Score(list[i], keywords)]

\* matches kept in an array that outlives the call: the matches of the run
\* before, then those the forEach pushed
PushedMatchesShared(list, keywords) ==
    LET scored == [i \in DOMAIN list |->
                     [academic |-> list[i], score |-> Score(list[i], keywords)]]
        Pushed(m) == IsMatch(m.score)
        earlier == IF runs # << >> /\ ~runs[Len(runs)].threw
                   THEN runs[Len(runs)].matches ELSE << >>
    IN  earlier \o SelectSeq(scored, Pushed)

\* matches, in the order the forEach pushed them
PushedMatches(list, keywords) ==
    LET scored == [i \in DOMAIN list |->
                     [academic |-> list[i], score |-> Score(list[i], keywords)]]
        Pushed(m) == IsMatch(m.score)
    IN  SelectSeq(scored, Pushed)

(***************************************************************************)
(* Array.prototype.sort with the comparator (a, b) => b.key - a.key:       *)
(* descending by key, and stable (ECMAScript 2019).                        *)
(***************************************************************************)
\* the comparator (a, b) => a.key - b.key, which sorts ascending
ComesAfterAscending(a, b) == a > b

\* a sort that puts the later of two elements with one key first
ComesAfterOrEqual(a, b) == a <= b

\* whether the element with key a must come after a later element with key b
ComesAfter(a, b) == a < b

RECURSIVE InsertIndex(_, _, _)
InsertIndex(i, order, keys) ==
    IF order = <<>> THEN << i >>
    ELSE IF ComesAfter(keys[Head(order)], keys[i]) THEN << i >> \o order
    ELSE << Head(order) >> \o InsertIndex(i, Tail(order), keys)

RECURSIVE SortedOrder(_, _)
SortedOrder(keys, n) ==
    IF n = 0 THEN <<>> ELSE InsertIndex(n, SortedOrder(keys, n - 1), keys)

\* matches.sort((a, b) => b.score - a.score)
SortMatches(matches) ==
    LET order == SortedOrder([i \in DOMAIN matches |-> matches[i].score], Len(matches))
    IN  [i \in DOMAIN matches |-> matches[order[i]]]

\* connections.sort((a, b) => b.strength - a.strength)
SortConnections(connections) ==
    LET order == SortedOrder([i \in DOMAIN connections |-> connections[i].strength],
                             Len(connections))
    IN  [i \in DOMAIN connections |-> connections[order[i]]]

(***************************************************************************)
(* demoSearch: connections between the top matches                         *)
(***************************************************************************)
\* how many of the sorted matches the connection loops visit
TopConnected == 5

\* how many of the sorted matches the results keep
TopMatches == 10

\* list?.includes(name): "undefined" when the academic has no connections
OptionalIncludes(academic, name) ==
    IF ~Has(academic, "connections") THEN "undefined"
    ELSE IF arrayIncludes(academic.connections, name) THEN "true"
    ELSE "false"

\* x || y on the three values above
Or(x, y) == IF x = "true" THEN x ELSE y

Truthy(x) == x = "true"

\* academicA.connections?.includes(academicB.name) ||
\* academicB.connections?.includes(academicA.name)
DirectlyConnected(academicA, academicB) ==
    Or(OptionalIncludes(academicA, academicB.name),
       OptionalIncludes(academicB, academicA.name))

\* valuesA, not filtered
SharedValuesUnfiltered(valuesA, valuesB) == valuesA

\* valuesA.filter(value => valuesB.includes(value))
SharedValues(valuesA, valuesB) ==
    LET InB(value) == arrayIncludes(valuesB, value)
    IN  SelectSeq(valuesA, InB)

\* for (const category in academicA.taxonomies) { ... sharedTaxonomies.push(...) }
RECURSIVE SharedLoop(_, _)
SharedLoop(taxonomiesA, taxonomiesB) ==
    IF taxonomiesA = <<>> THEN <<>>
    ELSE LET category == Head(taxonomiesA).category
             valuesA  == Head(taxonomiesA).values
             rest     == SharedLoop(Tail(taxonomiesA), taxonomiesB)
         IN  IF /\ HasCategory(taxonomiesB, category)
                /\ SharedValues(valuesA, CategoryValues(taxonomiesB, category)) # <<>>
             THEN << [category |-> category,
                      values   |-> SharedValues(valuesA,
                                       CategoryValues(taxonomiesB, category))] >> \o rest
             ELSE rest

\* if (academicA.taxonomies && academicB.taxonomies) { ... }
SharedTaxonomies(academicA, academicB) ==
    IF Has(academicA, "taxonomies") /\ Has(academicB, "taxonomies")
    THEN SharedLoop(academicA.taxonomies, academicB.taxonomies)
    ELSE <<>>

\* strength: (isDirectlyConnected ? 5 : 0) + sharedTaxonomies.length
StrengthUnweighted(isDirectlyConnected, sharedTaxonomies) ==
    (IF Truthy(isDirectlyConnected) THEN 5 ELSE 0) + Len(sharedTaxonomies)

\* strength: (isDirectlyConnected ? 5 : 0) + sharedTaxonomies.length * 2
Strength(isDirectlyConnected, sharedTaxonomies) ==
    (IF Truthy(isDirectlyConnected) THEN 5 ELSE 0) + Len(sharedTaxonomies) * 2

\* connections.push(...) without the if around it
IsConnectionAlways(isDirectlyConnected, sharedTaxonomies) == TRUE

\* if (isDirectlyConnected || sharedTaxonomies.length > 0) connections.push(...)
IsConnection(isDirectlyConnected, sharedTaxonomies) ==
    Truthy(isDirectlyConnected) \/ Len(sharedTaxonomies) > 0

\* the object the loop body pushes for matches[i], matches[j]
Connection(academicA, academicB) ==
    [academicA           |-> academicA.name,
     academicB           |-> academicB.name,
     isDirectlyConnected |-> DirectlyConnected(academicA, academicB),
     sharedTaxonomies    |-> SharedTaxonomies(academicA, academicB),
     strength            |-> Strength(DirectlyConnected(academicA, academicB),
                                      SharedTaxonomies(academicA, academicB))]

\* both loops running to matches.length
LoopBoundLength(n) == n

\* the bound of both loops: Math.min(matches.length, 5)
LoopBound(n) == Min(n, TopConnected)

\* where the inner loop starts: let j = i + 1
InnerStart(i) == i + 1

\* the index pairs (1-based) in the order the two for loops visit them
RECURSIVE PairLoop(_, _, _)
PairLoop(i, j, bound) ==
    IF i > bound THEN <<>>
    ELSE IF j > bound THEN PairLoop(i + 1, InnerStart(i + 1), bound)
    ELSE << << i, j >> >> \o PairLoop(i, j + 1, bound)

\* connections as pushed, before they are sorted
PushedConnections(matches) ==
    LET pairs == PairLoop(1, InnerStart(1), LoopBound(Len(matches)))
        all   == [p \in DOMAIN pairs |->
                    Connection(matches[pairs[p][1]].academic,
                               matches[pairs[p][2]].academic)]
        Pushed(c) == IsConnection(c.isDirectlyConnected, c.sharedTaxonomies)
    IN  SelectSeq(all, Pushed)

(***************************************************************************)
(* demoSearch: the response                                                *)
(***************************************************************************)
RECURSIVE MaxOf(_)
MaxOf(numbers) ==
    IF Len(numbers) = 1 THEN Head(numbers)
    ELSE LET m == MaxOf(Tail(numbers))
         IN  IF Head(numbers) > m THEN Head(numbers) ELSE m

\* (x).toFixed(1) + '%' with the digits after the first decimal cut off
RelevanceTruncated(score, max) ==
    LET tenths == (1000 * score) \div max
    IN  << tenths \div 10, ".", tenths % 10, "%" >>

\* (x).toFixed(1) + '%' for x = score / max * 100: the tenths nearest to x,
\* the larger of two equally near, written whole "." tenth "%"
Relevance(score, max) ==
    LET tenths == (2000 * score + max) \div (2 * max)
    IN  << tenths \div 10, ".", tenths % 10, "%" >>

\* matches without the slice
SliceNone(matches) == matches

\* matches.slice(0, 10)
SliceTop(matches) == SubSeq(matches, 1, Min(Len(matches), TopMatches))

\* matches.slice(0, 10).map(match => ({name, score, relevance}))
ResultMatches(matches) ==
    LET top == SliceTop(matches)
        max == MaxOf([i \in DOMAIN matches |-> matches[i].score])
    IN  [i \in DOMAIN top |->
            [name      |-> top[i].academic.name,
             score     |-> top[i].score,
             relevance |-> Relevance(top[i].score, max)]]

none == << "n", "o", "n", "e" >>

\* the template literal of analysis without || 'none'
AnalysisUndefined(matches, connections, query) ==
    << "Found ", Len(matches), " academics and ", Len(connections),
       " connections related to \"", query,
       "\".\nThe most relevant academic is ",
       IF matches # <<>> THEN matches[1].academic.name
       ELSE << "u", "n", "d", "e", "f", "i", "n", "e", "d" >>, "." >>

\* the template literal of analysis, its pieces in order
Analysis(matches, connections, query) ==
    << "Found ", Len(matches), " academics and ", Len(connections),
       " connections related to \"", query,
       "\".\nThe most relevant academic is ",
       IF matches # <<>> THEN matches[1].academic.name ELSE none, "." >>

\* the body of the setTimeout callback from the keywords on, for the academics
\* it got, when no pass of the forEach throws; time is the clock it reads
DemoResults(query, list, time) ==
    LET keywords    == Keywords(query)
        matches     == SortMatches(PushedMatches(list, keywords))
        connections == PushedConnections(matches)
    IN  [query       |-> query,
         timestamp   |-> time,
         matches     |-> ResultMatches(matches),
         connections |-> SortConnections(connections),
         analysis    |-> Analysis(matches, connections, query)]

(***************************************************************************)
(* The values the model draws its inputs from                              *)
(***************************************************************************)
Names ==
    << << "K", "a", "n", "t" >>,
       << "H", "u", "m", "e" >>,
       << "W", "i", "l", "l", "s" >>,
       << "M", "a", "r", "x" >>,
       << "R", "y", "l", "e" >>,
       << "R", "e", "i", "d" >>,
       << "L", "u", "l", "l" >>,
       << "C", "a", "t", "o" >>,
       << "B", "e", "d", "e" >>,
       << "Z", "e", "n", "o" >>,
       << "H", "e", "r", "o" >>,
       << "M", "a", "c", "h" >>,
       << "W", "e", "i", "l" >>,
       << "A", "m", "i", "n" >> >>

sMind     == << "M", "i", "n", "d" >>
sWill     == << "W", "i", "l", "l" >>
sLaw      == << "L", "a", "w" >>
sOld      == << "O", "l", "d" >>
sNew      == << "N", "e", "w" >>
sOfMind   == << "o", "f", " ", "M", "i", "n", "d" >>
sMindWill == << "m", "i", "n", "d", ",", " ", "f", "r", "e", "e", " ", "w", "i", "l", "l" >>
sFreeWill == << "f", "r", "e", "e", " ", "w", "i", "l", "l" >>
sOnMind   == << "O", "n", " ", "M", "i", "n", "d" >>

\* the optional fields of the k-th academic of the roster
RosterBio(k) ==
    CASE k % 4 = 1 -> [bio |-> sOfMind]
      [] k % 4 = 2 -> [bio |-> sMindWill]
      [] k % 4 = 3 -> [bio |-> sFreeWill]
      [] OTHER     -> << >>

RosterTaxonomies(k) ==
    CASE k % 5 = 1 -> [taxonomies |-> << [category |-> "theme", values |-> << sMind >>] >>]
      [] k % 5 = 2 -> [taxonomies |-> << [category |-> "theme", values |-> << sMind, sWill >>],
                                         [category |-> "era",   values |-> << sOld >>] >>]
      [] k % 5 = 3 -> [taxonomies |-> << [category |-> "era",   values |-> << sOld >>],
                                         [category |-> "theme", values |-> << sLaw >>] >>]
      [] k % 5 = 4 -> [taxonomies |-> << [category |-> "theme", values |-> << sWill, sMind >>],
                                         [category |-> "era",   values |-> << sNew >>] >>]
      [] OTHER     -> << >>

RosterPapers(k) ==
    CASE k % 3 = 1 -> [papers |-> << [title |-> sOnMind] >>]
      [] k % 3 = 2 -> [papers |-> << [title |-> sLaw], [title |-> sOnMind] >>]
      [] OTHER     -> << >>

RosterEvents(k) ==
    CASE k % 6 = 0 -> [events |-> << [title |-> sMindWill] >>]
      [] k % 6 = 3 -> [events |-> << >>]
      [] OTHER     -> << >>

RosterConnections(k) ==
    CASE k % 3 = 1 -> [connections |-> << Names[k + 1] >>]
      [] k % 3 = 2 -> [connections |-> << >>]
      [] OTHER     -> << >>

\* r @@ s for records, without TLC's @@ precedence in the way
Merge(r, s) == [f \in DOMAIN r \cup DOMAIN s |-> IF f \in DOMAIN r THEN r[f] ELSE s[f]]

\* the k-th academic of the roster
RosterAcademic(k) ==
    Merge([name |-> Names[k]],
    Merge(RosterBio(k),
    Merge(RosterTaxonomies(k),
    Merge(RosterPapers(k),
    Merge(RosterEvents(k), RosterConnections(k))))))

(***************************************************************************)
(* The record store (DatabaseManager)                                      *)
(***************************************************************************)
\* String.prototype.replace(/\s+/g, '-'): each run of whitespace becomes one '-'
RECURSIVE DashSpaces(_)
DashSpaces(s) ==
    IF s = <<>> THEN <<>>
    ELSE IF IsSpace(Head(s)) THEN << "-" >> \o DashSpaces(DropSpaces(s))
    ELSE << Head(s) >> \o DashSpaces(Tail(s))

IsKeyChar(c) == IsWordChar(c) \/ c = "-"

\* addOrUpdateAcademic: the property name an academic is stored under
AcademicKey(name) == SelectSeq(DashSpaces(toLowerCase(name)), IsKeyChar)

\* this.academics[key] = academic: a new property goes last, an old one keeps
\* its place
SetProperty(object, key, value) ==
    IF \E i \in DOMAIN object : object[i].key = key
    THEN [i \in DOMAIN object |->
            IF object[i].key = key THEN [key |-> key, value |-> value] ELSE object[i]]
    ELSE Append(object, [key |-> key, value |-> value])

\* Object.values(this.academics).reverse(): the academics, last first
getAllAcademicsReversed(object) ==
    [i \in DOMAIN object |-> object[Len(object) + 1 - i].value]

\* Object.values / getAllAcademics
getAllAcademics(object) == [i \in DOMAIN object |-> object[i].value]

\* JSON.stringify and JSON.parse of the plain data the store holds
Stringify(value) == << "json", value >>
Parse(text) == text[2]

\* the key a corpus of the model stores an academic under
EntryKey(academic) ==
    IF Has(academic, "name") THEN AcademicKey(academic.name) ELSE << "x" >>

RECURSIVE AsObject(_)
AsObject(list) ==
    IF list = <<>> THEN <<>>
    ELSE SetProperty(AsObject(SubSeq(list, 1, Len(list) - 1)),
                     EntryKey(list[Len(list)]), list[Len(list)])

(***************************************************************************)
(* Bounds and input sets                                                   *)
(***************************************************************************)
\* calls of executeSearch in one behaviour
MaxCalls == 2

\* the clock readings 0..MaxClock
MaxClock == 1

\* the longest corpus the search-only specification starts from
MaxCorpus == 12

sBasic  == << "b", "a", "s", "i", "c" >>
sMedium == << "m", "e", "d", "i", "u", "m" >>
sDeep   == << "d", "e", "e", "p" >>

qEmpty    == << >>
qBlank    == << " ", " " >>
qShort    == << "a", " ", "i", "s", " ", "t", "o" >>
qMind     == << "m", "i", "n", "d" >>
qPadded   == << " ", "m", "i", "n", "d", " " >>
qTwo      == << "W", "i", "l", "l", "s", " ", " ", "w", "i", "l", "l", " ",
               "m", "i", "n", "d", "?" >>
qThe      == << "t", "h", "e", " ", "l", "a", "w" >>
qMarks    == << "?", "?", "?", "?" >>
qLaw      == << "l", "a", "w", "s" >>
qMany     == LET word == qMind \o << " " >>
             IN  word \o word \o word \o word \o word \o word \o word \o word \o word
                 \o qLaw

\* the queries the user types
Queries == { qEmpty, qBlank, qPadded }

\* the queries demoSearch is called with directly
DemoQueries == { qBlank, qShort, qThe, qMind, qTwo, qMarks, qLaw, qMany }

\* the options of executeSearch: none, or a depth
Options == { << >>, [depth |-> sDeep] }

\* an academic as approvePendingSubmission creates it, and one without a name
Nameless == [bio |-> sOfMind, papers |-> << >>]

Roster == [k \in 1..Len(Names) |-> RosterAcademic(k)]

\* every run of at most MaxCorpus consecutive academics of the roster
RosterSlices ==
    { SubSeq(Roster, p[1], p[1] + p[2] - 1) :
        p \in { q \in (1..Len(Roster)) \X (0..MaxCorpus) :
                  q[1] + q[2] - 1 <= Len(Roster) } }

\* a second academic named as the first of the roster: an imported store can
\* hold one name under two keys
Twin == [name |-> Names[1], taxonomies |-> << [category |-> "theme", values |-> << sMind >>] >>]

\* an academic with 75 values under one category, "Mind 01" to "Mind 75",
\* and one with a single paper
sLaws == << "L", "a", "w", "s" >>
MindTopic(k) == sMind \o << " ", Digits[(k \div 10) + 1], Digits[(k % 10) + 1] >>
Prolific ==
    [name |-> << "L", "a", "m", "b" >>,
     taxonomies |-> << [category |-> "theme", values |-> [k \in 1..75 |-> MindTopic(k)]] >>]
Minor == [name |-> << "P", "e", "c", "k" >>, papers |-> << [title |-> sLaws] >>]

\* the corpora the search-only specification starts from
Corpora ==
    { AsObject(list) : list \in RosterSlices } \cup
    { AsObject(<< Roster[1], Nameless, Roster[2] >>),
      AsObject(<< Minor, Prolific >>),
      << [key |-> << "a" >>, value |-> Roster[1]],
         [key |-> << "b" >>, value |-> Twin],
         [key |-> << "c" >>, value |-> Roster[2]] >> }

\* what importDatabase is given: JSON text of an object with academics
ImportTexts ==
    { Stringify([academics |-> AsObject(<< Roster[1], Roster[2] >>)]),
      Stringify([academics |-> AsObject(<< Roster[2], Nameless, Roster[1] >>)]) }

\* an academic whose name differs from the first of the roster in case only:
\* addOrUpdateAcademic stores both under one key
Namesake == [name |-> toLowerCase(Names[1]), bio |-> sOfMind]

\* what addOrUpdateAcademic is given
StoreAcademics == { Roster[1], Namesake, Nameless }

\* the names deleteAcademic is given
StoreNames == { Names[1], Names[2] }

\* contributions in the queue: a biography of the first academic of the
\* roster, a connection of an academic the roster lacks, and one of a type
\* approvePendingSubmission does not process
Submissions ==
    { [contributionType |-> "bio", academicName |-> Names[1],
       data |-> [type |-> "bio", bio |-> [text |-> sOfMind]]],
      [contributionType |-> "connection", academicName |-> << "O", "k", "e", "n" >>,
       data |-> [type |-> "connection",
                 connection |-> [connectedAcademic |-> Names[1]]]],
      [contributionType |-> "comment"] }

\* a paper of the first academic of the roster and an event of the second
PaperSubmission ==
    [contributionType |-> "paper", academicName |-> Names[1],
     data |-> [type |-> "paper", paper |-> [title |-> sLaws]]]
EventSubmission ==
    [contributionType |-> "event", academicName |-> Names[2],
     data |-> [type |-> "event", event |-> [title |-> sLaws]]]

\* the contributions the admin page is loaded over
PanelSubmissions == Submissions \cup { PaperSubmission, EventSubmission }

\* what importDatabase is given in the store's specification: one name under
\* two keys, and an academic without a name
StoreTexts ==
    { Stringify([academics |-> << [key |-> << "a" >>, value |-> Roster[1]],
                                  [key |-> << "b" >>, value |-> Twin] >>]),
      Stringify([academics |-> AsObject(<< Roster[2], Nameless >>)]) }

\* a response body of the remote search service
RemoteBodies ==
    { [query |-> qMind, matches |-> << >>, connections |-> << >>,
       analysis |-> << "remote" >>] }

(***************************************************************************)
(* State                                                                   *)
(***************************************************************************)
dbVars     == << academics, noveltyTiles, pendingSubmissions, favorites >>
apiVars    == << apiKey, isInitialized, searchInProgress, searchDepth, searchCache >>
uiVars     == << handlers, deepSearchResults, submissionItems >>
ghVars     == << gitHubManager, gitHubCalls >>

\* the results panel with nothing in it
EmptyPanel == [shows |-> "nothing", query |-> << >>, content |-> << >>]
vars == << academics, noveltyTiles, pendingSubmissions, favorites, localStorage,
           databaseManagerDefined, apiKey, isInitialized, searchInProgress,
           searchDepth, searchCache, now, timers, requests, promises, runs,
           networks,
           handlers, deepSearchResults, submissionItems, gitHubManager,
           gitHubCalls >>

\* localStorage.setItem
SetItem(storage, item, text) == Merge([i \in {item} |-> text], storage)

\* DatabaseManager.saveData on the store's next values
SavedData(storage, a, n, p, f) ==
    SetItem(SetItem(SetItem(SetItem(storage,
        "killphilosophy_academics", Stringify(a)),
        "killphilosophy_novelties", Stringify(n)),
        "killphilosophy_submissions", Stringify(p)),
        "killphilosophy_favorites", Stringify(f))

(***************************************************************************)
(* GitHubAPIManager: its settings                                          *)
(***************************************************************************)
\* repo.includes('/')
HasSlash(repo) == \E i \in DOMAIN repo : repo[i] = "/"

\* repo.split('/')[0], the repo having a '/'
OwnerOf(repo) ==
    SubSeq(repo, 1, (CHOOSE i \in DOMAIN repo :
                        repo[i] = "/" /\ \A j \in 1..(i - 1) : repo[j] # "/") - 1)

\* repo.split('/')[1], the repo having a '/'
RECURSIVE UpToSlash(_)
UpToSlash(s) ==
    IF s = << >> \/ Head(s) = "/" THEN << >> ELSE << Head(s) >> \o UpToSlash(Tail(s))

NameOf(repo) == UpToSlash(SubSeq(repo, Len(OwnerOf(repo)) + 2, Len(repo)))

\* the most log entries the manager keeps
LogLimit == 50

\* _log(message, type): the entry goes first, and 50 entries are kept
Logged(logs, message, type, time) ==
    LET entries == << [message |-> message, type |-> type, timestamp |-> time] >> \o logs
    IN  IF Len(entries) > LogLimit THEN SubSeq(entries, 1, LogLimit) ELSE entries

\* localStorage.removeItem
RemoveItem(storage, item) == [i \in (DOMAIN storage) \ {item} |-> storage[i]]

\* localStorage.getItem(item) || '', for the items that hold a string
StoredString(storage, item) == IF item \in DOMAIN storage THEN storage[item] ELSE << >>

\* the constructor and _loadSettings over what localStorage holds
LoadedSettings(storage, time) ==
    LET savedRepo == StoredString(storage, "killphilosophy_github_repo")
        owner     == IF savedRepo = << >> THEN << >> ELSE UpToSlash(savedRepo)
        name      == IF savedRepo = << >> \/ ~HasSlash(savedRepo) THEN << >>
                     ELSE NameOf(savedRepo)
        connected == owner # << >> /\ name # << >>
    IN  [repoOwner   |-> owner,
         repoName    |-> name,
         token       |-> StoredString(storage, "killphilosophy_github_token"),
         isConnected |-> connected,
         logs        |-> IF connected
                         THEN Logged(<< >>, "GitHub settings loaded from localStorage",
                                     "info", time)
                         ELSE << >>]

\* _saveSettings over the manager's fields
SavedSettings(storage, manager) ==
    LET repo == IF manager.repoOwner # << >> /\ manager.repoName # << >>
                THEN SetItem(storage, "killphilosophy_github_repo",
                             manager.repoOwner \o << "/" >> \o manager.repoName)
                ELSE RemoveItem(storage, "killphilosophy_github_repo")
    IN  IF manager.token # << >>
        THEN SetItem(repo, "killphilosophy_github_token", manager.token)
        ELSE RemoveItem(repo, "killphilosophy_github_token")

\* the state the constructors leave, localStorage being empty
Init ==
    /\ academics = << >>
    /\ noveltyTiles = << >>
    /\ pendingSubmissions = << >>
    /\ favorites = << >>
    /\ localStorage = << >>
    /\ databaseManagerDefined = TRUE
    /\ apiKey = ""
    /\ isInitialized = FALSE
    /\ searchInProgress = FALSE
    /\ searchDepth = sMedium
    /\ searchCache = << >>
    /\ now = 0
    /\ timers = << >>
    /\ requests = << >>
    /\ promises = << >>
    /\ runs = << >>
    /\ networks = << >>
    /\ handlers = << >>
    /\ deepSearchResults = EmptyPanel
    /\ submissionItems = << >>
    /\ gitHubManager = LoadedSettings(<< >>, 0)
    /\ gitHubCalls = << >>

(***************************************************************************)
(* DatabaseManager operations                                              *)
(***************************************************************************)
\* importDatabase(json), json parsing to an object
ImportDatabase(json) ==
    LET data == Parse(json)
        a == IF Has(data, "academics") THEN data.academics ELSE academics
        n == IF Has(data, "noveltyTiles") THEN data.noveltyTiles ELSE noveltyTiles
        p == IF Has(data, "pendingSubmissions") THEN data.pendingSubmissions
             ELSE pendingSubmissions
        f == IF Has(data, "favorites") THEN data.favorites ELSE favorites
    IN  /\ databaseManagerDefined
        /\ academics' = a
        /\ noveltyTiles' = n
        /\ pendingSubmissions' = p
        /\ favorites' = f
        /\ localStorage' = SavedData(localStorage, a, n, p, f)
        /\ UNCHANGED << databaseManagerDefined, apiVars, now, timers, requests,
                        promises, runs, networks, uiVars, ghVars >>

\* saveData from the current localStorage
Saved(a, n, p, f) == SavedData(localStorage, a, n, p, f)

\* localStorage.getItem(item) parsed, or the current value when nothing is saved
LoadedItem(item, current) ==
    IF item \in DOMAIN localStorage THEN Parse(localStorage[item]) ELSE current

\* loadSampleData: the academics, each under the key of its name
SampleAcademics == AsObject(<< Roster[1], Roster[2] >>)

\* loadSampleData: the three tiles, dated 3, 7 and 14 days before the clock
SampleTiles(time) ==
    << [title |-> << "New Academic Added" >>, content |-> << "profile" >>,
        date |-> time - 3, type |-> "academic"],
       [title |-> << "New Connection Discovered" >>, content |-> << "exchange" >>,
        date |-> time - 7, type |-> "connection"],
       [title |-> << "Recently Added Paper" >>, content |-> << "paper" >>,
        date |-> time - 14, type |-> "paper"] >>

\* loadData(): what is saved replaces the fields; an empty store gets the
\* sample data, which is saved
LoadData ==
    LET a == LoadedItem("killphilosophy_academics", academics)
        n == LoadedItem("killphilosophy_novelties", noveltyTiles)
        p == LoadedItem("killphilosophy_submissions", pendingSubmissions)
        f == LoadedItem("killphilosophy_favorites", favorites)
    IN  /\ databaseManagerDefined
        /\ pendingSubmissions' = p
        /\ favorites' = f
        /\ IF Len(a) = 0
           THEN /\ academics' = SampleAcademics
                /\ noveltyTiles' = SampleTiles(now)
                /\ localStorage' = Saved(SampleAcademics, SampleTiles(now), p, f)
           ELSE /\ academics' = a
                /\ noveltyTiles' = n
                /\ UNCHANGED localStorage
        /\ UNCHANGED << databaseManagerDefined, apiVars, now, timers, requests,
                        promises, runs, networks, uiVars, ghVars >>

\* !academic.name: the name is missing or the empty string
LacksName(academic) == ~Has(academic, "name") \/ academic.name = << >>

\* the academics after addOrUpdateAcademic(academic)
addOrUpdateAcademic(object, academic) ==
    IF LacksName(academic) THEN object
    ELSE SetProperty(object, AcademicKey(academic.name), academic)

\* addOrUpdateAcademic(academic): false and no change without a name
AddOrUpdateAcademic(academic) ==
    /\ databaseManagerDefined
    /\ IF LacksName(academic)
       THEN UNCHANGED << academics, localStorage >>
       ELSE /\ academics' = addOrUpdateAcademic(academics, academic)
            /\ localStorage' = Saved(addOrUpdateAcademic(academics, academic),
                                     noveltyTiles, pendingSubmissions, favorites)
    /\ UNCHANGED << noveltyTiles, pendingSubmissions, favorites,
                    databaseManagerDefined, apiVars, now, timers, requests,
                    promises, runs, networks, uiVars, ghVars >>

\* this.academics[key].name === name
IsNamed(academic, name) == Has(academic, "name") /\ academic.name = name

\* delete object[key] for the i-th key
DeleteProperty(object, i) ==
    SubSeq(object, 1, i - 1) \o SubSeq(object, i + 1, Len(object))

\* the first key, in property order, whose academic has the name; 0 when none
FirstNamed(object, name) ==
    IF \E i \in DOMAIN object : IsNamed(object[i].value, name)
    THEN CHOOSE i \in DOMAIN object :
            /\ IsNamed(object[i].value, name)
            /\ \A j \in 1..(i - 1) : ~IsNamed(object[j].value, name)
    ELSE 0

\* deleteAcademic(name): the first academic of that name goes
DeleteAcademic(name) ==
    /\ databaseManagerDefined
    /\ IF FirstNamed(academics, name) = 0
       THEN UNCHANGED << academics, localStorage >>
       ELSE /\ academics' = DeleteProperty(academics, FirstNamed(academics, name))
            /\ localStorage' = Saved(DeleteProperty(academics, FirstNamed(academics, name)),
                                     noveltyTiles, pendingSubmissions, favorites)
    /\ UNCHANGED << noveltyTiles, pendingSubmissions, favorites,
                    databaseManagerDefined, apiVars, now, timers, requests,
                    promises, runs, networks, uiVars, ghVars >>

\* the second loop of getAcademic stops at an academic without a name, where
\* name.toLowerCase() throws, or at one whose lower-cased name is the same
StopsLookup(academic, nameLower) ==
    ~Has(academic, "name") \/ toLowerCase(academic.name) = nameLower

\* getAcademic(name): the key index found (0 for null), or a TypeError
getAcademic(object, name) ==
    IF FirstNamed(object, name) # 0
    THEN [threw |-> FALSE, index |-> FirstNamed(object, name)]
    ELSE IF \E i \in DOMAIN object : StopsLookup(object[i].value, toLowerCase(name))
    THEN LET i == CHOOSE k \in DOMAIN object :
                      /\ StopsLookup(object[k].value, toLowerCase(name))
                      /\ \A j \in 1..(k - 1) :
                             ~StopsLookup(object[j].value, toLowerCase(name))
         IN  [threw |-> ~Has(object[i].value, "name"), index |-> i]
    ELSE [threw |-> FALSE, index |-> 0]

\* the most tiles the store keeps
TileLimit == 100

\* noveltyTiles.sort((a, b) => new Date(b.date) - new Date(a.date))
SortTiles(tiles) ==
    LET order == SortedOrder([i \in DOMAIN tiles |-> tiles[i].date], Len(tiles))
    IN  [i \in DOMAIN tiles |-> tiles[order[i]]]

\* the tiles after addNoveltyTile(tile), the tile having a title and content
addNoveltyTile(tiles, tile) ==
    IF Len(tiles) + 1 > TileLimit
    THEN SubSeq(SortTiles(Append(tiles, tile)), 1, TileLimit)
    ELSE Append(tiles, tile)

\* the academic approvePendingSubmission makes when getAcademic finds none
NewAcademic(name) ==
    [name |-> name, papers |-> << >>, events |-> << >>, connections |-> << >>,
     taxonomies |-> << >>]

\* academic.field, or [] when the academic has no such array
ArrayOf(academic, field) == IF Has(academic, field) THEN academic[field] ELSE << >>

\* values.forEach(value => { if (!list.includes(value)) list.push(value) })
RECURSIVE PushMissing(_, _)
PushMissing(list, values) ==
    IF values = << >> THEN list
    ELSE PushMissing(IF arrayIncludes(list, Head(values)) THEN list
                     ELSE Append(list, Head(values)), Tail(values))

\* for (const category in submission.data.taxonomies): the category is made
\* when missing and gets the values it does not have
RECURSIVE MergeTaxonomies(_, _)
MergeTaxonomies(taxonomies, added) ==
    IF added = << >> THEN taxonomies
    ELSE LET category == Head(added).category
             made == IF HasCategory(taxonomies, category) THEN taxonomies
                     ELSE Append(taxonomies, [category |-> category, values |-> << >>])
         IN  MergeTaxonomies(
                 [i \in DOMAIN made |->
                     IF made[i].category = category
                     THEN [category |-> category,
                           values |-> PushMissing(made[i].values, Head(added).values)]
                     ELSE made[i]],
                 Tail(added))

\* case 'bio': the text, and the years that are given
WithBio(academic, bio) ==
    Merge(IF Has(bio, "deathYear") THEN [deathYear |-> bio.deathYear] ELSE << >>,
    Merge(IF Has(bio, "birthYear") THEN [birthYear |-> bio.birthYear] ELSE << >>,
    Merge([bio |-> bio.text], academic)))

\* switch (submission.data.type): the academic with the submitted data
Contributed(academic, data) ==
    IF data.type = "paper"
    THEN Merge([papers |-> Append(ArrayOf(academic, "papers"), data.paper)], academic)
    ELSE IF data.type = "event"
    THEN Merge([events |-> Append(ArrayOf(academic, "events"), data.event)], academic)
    ELSE IF data.type = "connection"
    THEN Merge([connections |-> PushMissing(ArrayOf(academic, "connections"),
                                            << data.connection.connectedAcademic >>)],
               academic)
    ELSE IF data.type = "taxonomy"
    THEN Merge([taxonomies |-> MergeTaxonomies(ArrayOf(academic, "taxonomies"),
                                               data.taxonomies)], academic)
    ELSE IF data.type = "bio"
    THEN WithBio(academic, data.bio)
    ELSE academic

\* the contribution types approvePendingSubmission processes
ContributionTypes == { "paper", "event", "connection", "taxonomy", "bio" }

\* the tile approvePendingSubmission adds
ContributionTile(submission, time) ==
    [title |-> << "New Contribution: " >> \o submission.academicName,
     content |-> << "New ", submission.data.type, " information approved for " >>
                 \o submission.academicName \o << "." >>,
     date |-> time,
     type |-> submission.data.type]

\* array.splice(index, 1), the index counted from 1
Splice(array, index) ==
    SubSeq(array, 1, index - 1) \o SubSeq(array, index + 1, Len(array))

\* addPendingSubmission(submission)
AddPendingSubmission(submission) ==
    /\ databaseManagerDefined
    /\ pendingSubmissions' = Append(pendingSubmissions, submission)
    /\ localStorage' = Saved(academics, noveltyTiles,
                             Append(pendingSubmissions, submission), favorites)
    /\ UNCHANGED << academics, noveltyTiles, favorites, databaseManagerDefined,
                    apiVars, now, timers, requests, promises, runs, networks, uiVars, ghVars >>

\* approvePendingSubmission(index - 1).  The academic getAcademic returns is
\* the stored object: the contribution changes it where it is, and
\* addOrUpdateAcademic stores it under the key of its name as well.
approvePendingSubmission(index) ==
    /\ databaseManagerDefined
    /\ IF index \notin DOMAIN pendingSubmissions
       THEN UNCHANGED << academics, noveltyTiles, pendingSubmissions, localStorage >>
       ELSE LET submission == pendingSubmissions[index]
                found == getAcademic(academics, submission.academicName)
                academic == Contributed(
                    IF found.index = 0 THEN NewAcademic(submission.academicName)
                    ELSE academics[found.index].value, submission.data)
                changed == IF found.index = 0 THEN academics
                           ELSE [academics EXCEPT ![found.index].value = academic]
                a == addOrUpdateAcademic(changed, academic)
                n == addNoveltyTile(noveltyTiles, ContributionTile(submission, now))
                p == Splice(pendingSubmissions, index)
            IN  IF submission.contributionType \notin ContributionTypes
                THEN /\ pendingSubmissions' = p
                     /\ localStorage' = Saved(academics, noveltyTiles, p, favorites)
                     /\ UNCHANGED << academics, noveltyTiles >>
                ELSE IF found.threw
                THEN UNCHANGED << academics, noveltyTiles, pendingSubmissions,
                                  localStorage >>
                ELSE /\ academics' = a
                     /\ noveltyTiles' = n
                     /\ pendingSubmissions' = p
                     /\ localStorage' = Saved(a, n, p, favorites)
    /\ UNCHANGED << favorites, databaseManagerDefined, apiVars, now, timers,
                    requests, promises, runs, networks, ghVars >>

\* whether approvePendingSubmission(index - 1) returns true: the index is in
\* range and getAcademic does not throw
Approves(index) ==
    /\ index \in DOMAIN pendingSubmissions
    /\ pendingSubmissions[index].contributionType \in ContributionTypes
           => ~getAcademic(academics, pendingSubmissions[index].academicName).threw

\* approvePendingSubmission called from elsewhere than the panel
ApprovePendingSubmission(index) ==
    /\ approvePendingSubmission(index)
    /\ UNCHANGED uiVars

\* rejectPendingSubmission(index - 1)
rejectPendingSubmission(index) ==
    /\ databaseManagerDefined
    /\ IF index \notin DOMAIN pendingSubmissions
       THEN UNCHANGED << pendingSubmissions, localStorage >>
       ELSE /\ pendingSubmissions' = Splice(pendingSubmissions, index)
            /\ localStorage' = Saved(academics, noveltyTiles,
                                     Splice(pendingSubmissions, index), favorites)
    /\ UNCHANGED << academics, noveltyTiles, favorites, databaseManagerDefined,
                    apiVars, now, timers, requests, promises, runs, networks, ghVars >>

\* rejectPendingSubmission called from elsewhere than the panel
RejectPendingSubmission(index) ==
    /\ rejectPendingSubmission(index)
    /\ UNCHANGED uiVars

(***************************************************************************)
(* ContributionHandler._submitContribution                                 *)
(***************************************************************************)
\* the tile _submitContribution adds
SubmissionTile(submission, time) ==
    [title |-> << "New Contribution: " >> \o submission.academicName,
     content |-> << "New ", submission.data.type, " information added for " >>
                 \o submission.academicName \o << "." >>,
     date |-> time,
     type |-> submission.data.type]

\* _submitContribution(submission, false), the database manager being there:
\* the contribution is written to the academic, which is stored, and the
\* submission is put in the queue.  When getAcademic throws, the catch
\* displays the error and nothing is stored.
SubmitContribution(submission) ==
    LET found == getAcademic(academics, submission.academicName)
        academic == Contributed(
            IF found.index = 0 THEN NewAcademic(submission.academicName)
            ELSE academics[found.index].value, submission.data)
        changed == IF found.index = 0 THEN academics
                   ELSE [academics EXCEPT ![found.index].value = academic]
        a == addOrUpdateAcademic(changed, academic)
        p == Append(pendingSubmissions, submission)
        n == addNoveltyTile(noveltyTiles, SubmissionTile(submission, now))
    IN  /\ databaseManagerDefined
        /\ IF found.threw
           THEN UNCHANGED << academics, noveltyTiles, pendingSubmissions, localStorage >>
           ELSE /\ academics' = a
                /\ pendingSubmissions' = p
                /\ noveltyTiles' = n
                /\ localStorage' = Saved(a, n, p, favorites)
        /\ UNCHANGED << favorites, databaseManagerDefined, apiVars, now, timers,
                        requests, promises, runs, networks, uiVars, ghVars >>

(***************************************************************************)
(* The pending-submissions panel of the admin page                         *)
(***************************************************************************)
\* submissions.forEach((submission, index) => ...): one item a submission,
\* its handlers holding the index it had when the page was loaded
RenderedItems(submissions) ==
    [i \in DOMAIN submissions |-> [index |-> i - 1, submission |-> submissions[i]]]

\* a click on Approve in item k: the item is removed when the call succeeds
ClickApprove(k) ==
    /\ approvePendingSubmission(submissionItems[k].index + 1)
    /\ submissionItems' = IF Approves(submissionItems[k].index + 1)
                          THEN Splice(submissionItems, k) ELSE submissionItems
    /\ UNCHANGED << handlers, deepSearchResults >>

\* a click on Reject in item k
ClickReject(k) ==
    /\ rejectPendingSubmission(submissionItems[k].index + 1)
    /\ submissionItems' = IF submissionItems[k].index + 1 \in DOMAIN pendingSubmissions
                          THEN Splice(submissionItems, k) ELSE submissionItems
    /\ UNCHANGED << handlers, deepSearchResults >>

\* clearDatabase()
ClearDatabase ==
    /\ databaseManagerDefined
    /\ academics' = << >>
    /\ noveltyTiles' = << >>
    /\ pendingSubmissions' = << >>
    /\ favorites' = << >>
    /\ localStorage' = Saved(<< >>, << >>, << >>, << >>)
    /\ UNCHANGED << databaseManagerDefined, apiVars, now, timers, requests,
                    promises, runs, networks, uiVars, ghVars >>

(***************************************************************************)
(* DeepSearchAPI operations                                                *)
(***************************************************************************)
\* how many properties searchCache may hold after an insertion
CacheLimit == 20

\* the guard without its trim: !query
IsBlankQueryUntrimmed(query) == query = << >>

\* !query || query.trim() === ''
IsBlankQuery(query) == query = << >> \/ trim(query) = << >>

\* `${query}_${depth}`
CacheKey(query, depth) == query \o << "_" >> \o depth

HasProperty(object, key) == \E i \in DOMAIN object : object[i].key = key

GetProperty(object, key) ==
    object[CHOOSE i \in DOMAIN object : object[i].key = key].value

\* isQueryCached(query, depth): !!this.searchCache[`${query}_${depth}`]
isQueryCached(query, depth) == HasProperty(searchCache, CacheKey(query, depth))

\* getCachedResults(query, depth): this.searchCache[cacheKey] || null
getCachedResults(query, depth) ==
    IF HasProperty(searchCache, CacheKey(query, depth))
    THEN GetProperty(searchCache, CacheKey(query, depth)) ELSE "null"

\* delete object[key] for the last of Object.keys(object)
DeleteLast(object) == SubSeq(object, 1, Len(object) - 1)

\* delete object[Object.keys(object)[0]]
DeleteFirst(object) == Tail(object)

\* this.searchCache[cacheKey] = results, then the cache size limit
Cached(cache, cacheKey, results) ==
    LET stored == SetProperty(cache, cacheKey, results)
    IN  IF Len(stored) > CacheLimit THEN DeleteFirst(stored) ELSE stored

\* a promise that is fulfilled with whatever settles it
SettleFulfilled(id, state, value) ==
    [promises EXCEPT ![id] = Merge([state |-> "fulfilled", value |-> value], @)]

\* the state of the promise of call number id
Settle(id, state, value) ==
    [promises EXCEPT ![id] = Merge([state |-> state, value |-> value], @)]

\* setAPIKey(key) with a non-empty key
SetAPIKey(key) ==
    /\ key # ""
    /\ apiKey # key
    /\ apiKey' = key
    /\ isInitialized' = TRUE
    /\ localStorage' = SetItem(localStorage, "killphilosophy_deepsearch_api_key", key)
    /\ UNCHANGED << dbVars, databaseManagerDefined, searchInProgress, searchDepth,
                    searchCache, now, timers, requests, promises, runs, networks, uiVars, ghVars >>

\* executeSearch(query, options), up to its first await
executeSearch(query, options) ==
    LET id       == Len(promises) + 1
        call     == [op |-> "executeSearch", query |-> query]
        trimmed  == trim(query)
        depth    == IF Has(options, "depth") /\ options.depth # << >>
                    THEN options.depth ELSE searchDepth
        cacheKey == CacheKey(trimmed, depth)
    IN  /\ IF IsBlankQuery(query)
           THEN \* throw new Error('Empty search query')
                /\ promises' = Append(promises,
                       Merge(call, [state |-> "rejected", value |-> "Empty search query"]))
                /\ UNCHANGED << searchInProgress, timers, requests >>
           ELSE IF HasProperty(searchCache, cacheKey)
           THEN \* return this.searchCache[cacheKey]
                /\ promises' = Append(promises,
                       Merge(call, [state |-> "fulfilled", from |-> "cache",
                                    depth |-> depth,
                                    value |-> GetProperty(searchCache, cacheKey)]))
                /\ UNCHANGED << searchInProgress, timers, requests >>
           ELSE /\ searchInProgress' = TRUE
                /\ promises' = Append(promises,
                       Merge(call, [state |-> "pending", depth |-> depth]))
                /\ IF isInitialized
                   THEN \* await fetch(this.endpoint, requestOptions)
                        /\ requests' = Append(requests,
                               [id |-> id, cacheKey |-> cacheKey, stage |-> "fetch"])
                        /\ UNCHANGED timers
                   ELSE \* await this.demoSearch(query)
                        /\ timers' = Append(timers,
                               [id |-> id, query |-> trimmed, cacheKey |-> cacheKey,
                                caller |-> "executeSearch"])
                        /\ UNCHANGED requests
        /\ UNCHANGED << dbVars, localStorage, databaseManagerDefined, apiKey,
                        isInitialized, searchDepth, searchCache, now, runs, networks >>

\* executeSearch(query, options) called from elsewhere than the click handler
ExecuteSearch(query, options) ==
    /\ executeSearch(query, options)
    /\ UNCHANGED << uiVars, ghVars >>

\* demoSearch(query) called on its own: it returns a pending promise
DemoSearch(query) ==
    /\ promises' = Append(promises,
           [op |-> "demoSearch", query |-> query, state |-> "pending"])
    /\ timers' = Append(timers,
           [id |-> Len(promises) + 1, query |-> query, caller |-> "demoSearch"])
    /\ UNCHANGED << dbVars, localStorage, databaseManagerDefined, apiVars, now,
                    requests, runs, networks, uiVars, ghVars >>

\* what one run of the setTimeout callback computes: its locals, and the
\* response unless a pass of the forEach threw
Run(query, list, time) ==
    LET keywords == Keywords(query)
        threw    == \E i \in DOMAIN list : Throws(list[i])
        locals   == [query     |-> query,
                     academics |-> list,
                     keywords  |-> keywords,
                     scores    |-> Scores(Visited(list), keywords),
                     threw     |-> threw]
    IN  IF threw THEN locals
        ELSE Merge(locals,
                 [matches |-> SortMatches(PushedMatches(list, keywords)),
                  results |-> DemoResults(query, list, time)])

\* the oldest setTimeout callback of demoSearch runs, the clock reading time;
\* when it resolves the
\* promise executeSearch awaits, the rest of executeSearch follows before any
\* other task.  When it throws nothing resolves the promise.
DemoTimeout(time) ==
    /\ timers # << >>
    /\ time >= now
    /\ now' = time
    /\ LET timer == Head(timers)
           list  == IF databaseManagerDefined THEN getAllAcademics(academics) ELSE << >>
           run   == Run(timer.query, list, time)
       IN  /\ timers' = Tail(timers)
           /\ runs' = Append(runs, Merge([id |-> timer.id], run))
           /\ IF run.threw
              THEN UNCHANGED << promises, searchCache, searchInProgress >>
              ELSE /\ promises' = Settle(timer.id, "fulfilled", run.results)
                   /\ IF timer.caller = "executeSearch"
                      THEN /\ searchCache' = Cached(searchCache, timer.cacheKey, run.results)
                           /\ searchInProgress' = FALSE
                      ELSE UNCHANGED << searchCache, searchInProgress >>
    /\ UNCHANGED << dbVars, localStorage, databaseManagerDefined, apiKey,
                    isInitialized, searchDepth, requests, networks, uiVars, ghVars >>

\* fetch rejects: catch rethrows, finally clears searchInProgress
FetchRejects(i) ==
    /\ requests[i].stage = "fetch"
    /\ requests' = SubSeq(requests, 1, i - 1) \o SubSeq(requests, i + 1, Len(requests))
    /\ promises' = Settle(requests[i].id, "rejected", "fetch failed")
    /\ searchInProgress' = FALSE
    /\ UNCHANGED << dbVars, localStorage, databaseManagerDefined, apiKey,
                    isInitialized, searchDepth, searchCache, now, timers, runs, networks, uiVars, ghVars >>

\* fetch resolves with a response; executeSearch awaits response.json()
FetchResponds(i, ok) ==
    /\ requests[i].stage = "fetch"
    /\ requests' = [requests EXCEPT ![i].stage = IF ok THEN "json" ELSE "errorJson"]
    /\ UNCHANGED << dbVars, localStorage, databaseManagerDefined, apiVars, now,
                    timers, promises, runs, networks, uiVars, ghVars >>

\* response.json() settles: the results are cached and returned, or the error
\* of a response that was not ok is thrown; finally clears searchInProgress
JsonSettles(i, body) ==
    /\ requests[i].stage \in { "json", "errorJson" }
    /\ requests' = SubSeq(requests, 1, i - 1) \o SubSeq(requests, i + 1, Len(requests))
    /\ IF requests[i].stage = "json"
       THEN /\ searchCache' = Cached(searchCache, requests[i].cacheKey, body)
            /\ promises' = Settle(requests[i].id, "fulfilled", body)
       ELSE /\ promises' = Settle(requests[i].id, "rejected", "API request failed")
            /\ UNCHANGED searchCache
    /\ searchInProgress' = FALSE
    /\ UNCHANGED << dbVars, localStorage, databaseManagerDefined, apiKey,
                    isInitialized, searchDepth, now, timers, runs, networks, uiVars, ghVars >>

(***************************************************************************)
(* The click handler of the run-deep-search button                         *)
(***************************************************************************)
\* deepSearchResults.innerHTML after the handler has displayed the results
ResultsPanel(query, results) ==
    [shows |-> "results", query |-> query, content |-> results]

\* the error message the handler puts in the panel
ErrorPanel(message) == [shows |-> "error", query |-> << >>, content |-> message]

\* a handler whose executeSearch has settled and that has not resumed yet
IsReady(h) ==
    /\ ~handlers[h].resumed
    /\ promises[handlers[h].id].state # "pending"

\* no continuation is waiting in the microtask queue: the next task may run
NoneReady == \A h \in DOMAIN handlers : ~IsReady(h)

\* a click with value in the input and depth selected: the handler up to its
\* await of executeSearch
ClickRunDeepSearch(value, depth) ==
    IF trim(value) = << >>
    THEN /\ deepSearchResults' = ErrorPanel("Please enter a search query")
         /\ UNCHANGED << dbVars, localStorage, databaseManagerDefined, apiVars, now,
                         timers, requests, promises, runs, networks, handlers,
                         submissionItems, ghVars >>
    ELSE /\ UNCHANGED << submissionItems, ghVars >>
         /\ deepSearchResults' = EmptyPanel
         /\ handlers' = Append(handlers,
                [id |-> Len(promises) + 1, query |-> trim(value), resumed |-> FALSE])
         /\ executeSearch(trim(value), [depth |-> depth])

\* the handler resumes after its await: it displays the results, or the
\* error in its catch
HandlerResumes(h) ==
    /\ IsReady(h)
    /\ \A g \in 1..(h - 1) : ~IsReady(g)
    /\ handlers' = [handlers EXCEPT ![h].resumed = TRUE]
    /\ deepSearchResults' =
           IF promises[handlers[h].id].state = "fulfilled"
           THEN ResultsPanel(handlers[h].query, promises[handlers[h].id].value)
           ELSE ErrorPanel(promises[handlers[h].id].value)
    /\ UNCHANGED << dbVars, localStorage, databaseManagerDefined, apiVars, now,
                    timers, requests, promises, runs, networks, submissionItems,
                    ghVars >>

(***************************************************************************)
(* GitHubAPIManager: connectToRepo and disconnect                          *)
(***************************************************************************)
\* the manager with one more log entry
WithLog(manager, message, type) ==
    [manager EXCEPT !.logs = Logged(manager.logs, message, type, now)]

\* the catch of connectToRepo: isConnected = false and the failure is logged
ConnectFailed(manager) ==
    WithLog([manager EXCEPT !.isConnected = FALSE],
            "Failed to connect to repository", "error")

\* the catch of _makeRequest, which logs and rethrows, then that of connectToRepo
RequestFailed(manager) ==
    ConnectFailed(WithLog(manager, "API request failed", "error"))

\* what becomes of call c
Returned(c, request, value) ==
    [gitHubCalls EXCEPT ![c] = [@ EXCEPT !.request = request,
                                          !.state = "fulfilled",
                                          !.value = value]]

\* connectToRepo(repo, token), up to its first await that waits for a task:
\* _makeRequest throws before it fetches when the manager is not connected
ConnectToRepo(repo, token) ==
    LET call == [repo |-> repo, token |-> token,
                 wasConnected |-> gitHubManager.isConnected,
                 request |-> "none", state |-> "fulfilled", value |-> FALSE]
        set  == [gitHubManager EXCEPT !.repoOwner = OwnerOf(repo),
                                      !.repoName = NameOf(repo),
                                      !.token = token]
    IN  /\ IF repo = << >> \/ ~HasSlash(repo)
           THEN /\ gitHubManager' = WithLog(gitHubManager,
                                       "Invalid repository format", "error")
                /\ gitHubCalls' = Append(gitHubCalls, call)
           ELSE IF ~gitHubManager.isConnected
           THEN /\ gitHubManager' = ConnectFailed(set)
                /\ gitHubCalls' = Append(gitHubCalls, call)
           ELSE /\ gitHubManager' = set
                /\ gitHubCalls' = Append(gitHubCalls,
                       [call EXCEPT !.request = "sent", !.state = "fetch"])
        /\ UNCHANGED << dbVars, localStorage, databaseManagerDefined, apiVars, now,
                        timers, requests, promises, runs, networks, uiVars >>

\* the fetch of call c rejects
GitHubFetchRejects(c) ==
    /\ gitHubCalls[c].state = "fetch"
    /\ gitHubManager' = RequestFailed(gitHubManager)
    /\ gitHubCalls' = Returned(c, "failed", FALSE)
    /\ UNCHANGED << dbVars, localStorage, databaseManagerDefined, apiVars, now,
                    timers, requests, promises, runs, networks, uiVars >>

\* the fetch of call c resolves with a response; _makeRequest awaits its body
GitHubFetchResponds(c, ok) ==
    /\ gitHubCalls[c].state = "fetch"
    /\ gitHubCalls' = [gitHubCalls EXCEPT ![c].state = IF ok THEN "json" ELSE "errorJson"]
    /\ UNCHANGED << dbVars, localStorage, databaseManagerDefined, apiVars, now,
                    timers, requests, promises, runs, networks, uiVars, gitHubManager >>

\* the body of the response has been read: the error of a response that was
\* not ok is thrown, or the manager is connected and its settings are saved
GitHubJsonSettles(c) ==
    /\ gitHubCalls[c].state \in { "json", "errorJson" }
    /\ IF gitHubCalls[c].state = "errorJson"
       THEN /\ gitHubManager' = RequestFailed(gitHubManager)
            /\ gitHubCalls' = Returned(c, "failed", FALSE)
            /\ UNCHANGED localStorage
       ELSE /\ gitHubManager' = WithLog([gitHubManager EXCEPT !.isConnected = TRUE],
                                        "Successfully connected", "success")
            /\ gitHubCalls' = Returned(c, "ok", TRUE)
            /\ localStorage' = SavedSettings(localStorage, gitHubManager)
    /\ UNCHANGED << dbVars, databaseManagerDefined, apiVars, now,
                    timers, requests, promises, runs, networks, uiVars >>

\* disconnect()
Disconnect ==
    LET blank == [gitHubManager EXCEPT !.repoOwner = << >>, !.repoName = << >>,
                                       !.token = << >>, !.isConnected = FALSE]
    IN  /\ gitHubManager' = WithLog(blank, "Disconnected from GitHub repository", "info")
        /\ localStorage' = SavedSettings(localStorage, blank)
        /\ UNCHANGED << dbVars, databaseManagerDefined, apiVars, now, timers,
                        requests, promises, runs, networks, uiVars, gitHubCalls >>

(***************************************************************************)
(* convertToNetworkData: nodes is a Map, its entries in insertion order    *)
(***************************************************************************)
\* parseFloat(match.score) || 1
NodeScore(match) == IF Has(match, "score") /\ match.score # 0 THEN match.score ELSE 1

\* results.matches.forEach(match => nodes.set(match.name, {...}))
RECURSIVE MatchNodes(_)
MatchNodes(matches) ==
    IF matches = << >> THEN << >>
    ELSE LET match == matches[Len(matches)]
         IN  SetProperty(MatchNodes(SubSeq(matches, 1, Len(matches) - 1)), match.name,
                         [id |-> match.name, group |-> "match", score |-> NodeScore(match)])

\* nodes.set(name, {...}) whether or not the Map has the name
EndpointNodeAlways(nodes, name) ==
    SetProperty(nodes, name, [id |-> name, group |-> "related", score |-> 1])

\* if (!nodes.has(name)) nodes.set(name, {id: name, group: 'related', score: 1})
EndpointNode(nodes, name) ==
    IF HasProperty(nodes, name) THEN nodes
    ELSE SetProperty(nodes, name, [id |-> name, group |-> "related", score |-> 1])

\* results.connections.forEach(connection => { ... }): the nodes it leaves
RECURSIVE ConnectionNodes(_, _)
ConnectionNodes(nodes, connections) ==
    IF connections = << >> THEN nodes
    ELSE ConnectionNodes(
             EndpointNode(EndpointNode(nodes, Head(connections).academicA),
                          Head(connections).academicB),
             Tail(connections))

\* links.push({source, target, value: strength || 1, type})
Link(connection) ==
    [source |-> connection.academicA,
     target |-> connection.academicB,
     value  |-> IF Has(connection, "strength") /\ connection.strength # 0
                THEN connection.strength ELSE 1,
     type   |-> IF Has(connection, "isDirectlyConnected")
                   /\ Truthy(connection.isDirectlyConnected)
                THEN "direct" ELSE "indirect"]

convertToNetworkData(results) ==
    IF ~Has(results, "connections") THEN [nodes |-> << >>, links |-> << >>]
    ELSE [nodes |-> getAllAcademics(ConnectionNodes(
                        IF Has(results, "matches") THEN MatchNodes(results.matches)
                        ELSE << >>,
                        results.connections)),
          links |-> [c \in DOMAIN results.connections |-> Link(results.connections[c])]]

\* the Visualize Network button of the results of call number id is clicked
ConvertToNetworkData(id) ==
    /\ promises[id].state = "fulfilled"
    /\ networks' = Append(networks,
           [results |-> promises[id].value,
            data    |-> convertToNetworkData(promises[id].value)])
    /\ UNCHANGED << dbVars, localStorage, databaseManagerDefined, apiVars, now,
                    timers, requests, promises, runs, uiVars, ghVars >>

Next ==
    \/ \E json \in ImportTexts : ImportDatabase(json)
    \/ SetAPIKey("key")
    \/ /\ Len(promises) < MaxCalls
       /\ \E query \in Queries, options \in Options : ExecuteSearch(query, options)
    \/ \E time \in 0..MaxClock : DemoTimeout(time)
    \/ \E i \in DOMAIN requests : FetchRejects(i)
    \/ \E i \in DOMAIN requests, ok \in BOOLEAN : FetchResponds(i, ok)
    \/ \E i \in DOMAIN requests, body \in RemoteBodies : JsonSettles(i, body)

Spec == Init /\ [][Next]_vars

(***************************************************************************)
(* The search alone: the store holds one of the corpora, demoSearch is     *)
(* called once with one of the queries, and its callback runs.             *)
(***************************************************************************)
InitDemo ==
    /\ academics \in Corpora
    /\ noveltyTiles = << >>
    /\ pendingSubmissions = << >>
    /\ favorites = << >>
    /\ localStorage = SavedData(<< >>, academics, << >>, << >>, << >>)
    /\ databaseManagerDefined \in BOOLEAN
    /\ databaseManagerDefined = FALSE => academics = << >>
    /\ apiKey = ""
    /\ isInitialized = FALSE
    /\ searchInProgress = FALSE
    /\ searchDepth = sMedium
    /\ searchCache = << >>
    /\ now = 0
    /\ timers = << >>
    /\ requests = << >>
    /\ promises = << >>
    /\ runs = << >>
    /\ networks = << >>
    /\ handlers = << >>
    /\ deepSearchResults = EmptyPanel
    /\ submissionItems = << >>
    /\ gitHubManager = LoadedSettings(<< >>, 0)
    /\ gitHubCalls = << >>

NextDemo ==
    \/ /\ promises = << >>
       /\ \E query \in DemoQueries : DemoSearch(query)
    \/ \E time \in 0..MaxClock : DemoTimeout(time)

SpecDemo == InitDemo /\ [][NextDemo]_vars

(***************************************************************************)
(* Search and visualisation: one executeSearch, with or without an API     *)
(* key, and the network made of its results.                               *)
(***************************************************************************)
\* response bodies of the remote search service
NetworkBodies ==
    { [query |-> qMind,
       matches |-> << [name |-> Names[1], score |-> 3], [name |-> Names[2], score |-> 0] >>,
       connections |-> << [academicA |-> Names[1], academicB |-> Names[3],
                           isDirectlyConnected |-> "true", sharedTaxonomies |-> << >>,
                           strength |-> 5],
                          [academicA |-> Names[3], academicB |-> Names[4],
                           isDirectlyConnected |-> "false", sharedTaxonomies |-> << >>],
                          [academicA |-> Names[2], academicB |-> Names[1],
                           sharedTaxonomies |-> << >>, strength |-> 2] >>],
      [query |-> qMind,
       matches |-> << [name |-> Names[1], score |-> 3], [name |-> Names[1], score |-> 2] >>,
       connections |-> << >>],
      [query |-> qMind,
       connections |-> << [academicA |-> Names[1], academicB |-> Names[2],
                           isDirectlyConnected |-> "true", strength |-> 5] >>],
      [query |-> qMind,
       matches |-> << [name |-> Names[1], score |-> 3] >>] }

NetworkQueries == { qMind, qTwo }

NextNetwork ==
    \/ /\ promises = << >>
       /\ SetAPIKey("key")
    \/ /\ promises = << >>
       /\ \E query \in NetworkQueries : ExecuteSearch(query, << >>)
    \/ /\ promises = << >>
       /\ DemoSearch(qMind)
    \/ \E time \in 0..MaxClock : DemoTimeout(time)
    \/ \E i \in DOMAIN requests, ok \in BOOLEAN : FetchResponds(i, ok)
    \/ \E i \in DOMAIN requests, body \in NetworkBodies : JsonSettles(i, body)
    \/ /\ networks = << >>
       /\ \E id \in DOMAIN promises : ConvertToNetworkData(id)

SpecNetwork == InitDemo /\ [][NextNetwork]_vars

(***************************************************************************)
(* The cache at its limit: searches have filled searchCache with one       *)
(* result short of its limit, or up to it, and further calls follow.       *)
(***************************************************************************)
\* the query of the k-th search before: "q01", "q02", ...
QueryNumber(k) == << "q", Digits[(k \div 10) + 1], Digits[(k % 10) + 1] >>

\* searchCache after the searches QueryNumber(1) .. QueryNumber(n) over the
\* empty store, at the default depth
RECURSIVE FilledCache(_)
FilledCache(n) ==
    IF n = 0 THEN << >>
    ELSE Cached(FilledCache(n - 1), CacheKey(QueryNumber(n), sMedium),
                DemoResults(QueryNumber(n), << >>, 0))

\* a query in the cache, two that are new, and one new with spaces around it
CacheQueries == { QueryNumber(2), qMind, qPadded, qLaw }

InitCache ==
    /\ academics = << >>
    /\ noveltyTiles = << >>
    /\ pendingSubmissions = << >>
    /\ favorites = << >>
    /\ localStorage = << >>
    /\ databaseManagerDefined = TRUE
    /\ apiKey = ""
    /\ isInitialized = FALSE
    /\ searchInProgress = FALSE
    /\ searchDepth = sMedium
    /\ searchCache \in { FilledCache(CacheLimit - 1), FilledCache(CacheLimit) }
    /\ now = 0
    /\ timers = << >>
    /\ requests = << >>
    /\ promises = << >>
    /\ runs = << >>
    /\ networks = << >>
    /\ handlers = << >>
    /\ deepSearchResults = EmptyPanel
    /\ submissionItems = << >>
    /\ gitHubManager = LoadedSettings(<< >>, 0)
    /\ gitHubCalls = << >>

NextCache ==
    \/ /\ Len(promises) <= MaxCalls
       /\ \E query \in CacheQueries : ExecuteSearch(query, << >>)
    \/ \E time \in 0..MaxClock : DemoTimeout(time)

SpecCache == InitCache /\ [][NextCache]_vars

(***************************************************************************)
(* Properties                                                              *)
(***************************************************************************)
(* The results panel: clicks of the run-deep-search button, with or        *)
(* without an API key.  A handler that can resume does so before the next  *)
(* task runs.                                                              *)
(***************************************************************************)
\* clicks of the button in one behaviour
MaxClicks == 3

\* what the input holds at a click
PanelValues == { qBlank, qPadded, qLaw }

NextPanel ==
    \/ \E h \in DOMAIN handlers : HandlerResumes(h)
    \/ /\ NoneReady
       /\ \/ SetAPIKey("key")
          \/ /\ Len(promises) < MaxClicks
             /\ \E value \in PanelValues : ClickRunDeepSearch(value, sMedium)
          \/ \E time \in 0..MaxClock : DemoTimeout(time)
          \/ \E i \in DOMAIN requests : FetchRejects(i)
          \/ \E i \in DOMAIN requests, ok \in BOOLEAN : FetchResponds(i, ok)
          \/ \E i \in DOMAIN requests, body \in RemoteBodies : JsonSettles(i, body)

SpecPanel == Init /\ [][NextPanel]_vars

(***************************************************************************)
(* The GitHub manager alone: it is constructed over a localStorage that    *)
(* holds no settings, or the settings of a repository.                     *)
(***************************************************************************)
\* calls of connectToRepo in one behaviour
MaxConnects == 2

repoPlain == << "r", "e", "p", "o" >>
repoGood  == << "o", "/", "r" >>
repoOther == << "a", "/", "b" >>
tokenSet  == << "t" >>

\* what connectToRepo is given
Repos  == { << >>, repoPlain, repoGood, repoOther }
Tokens == { << >>, tokenSet }

\* what localStorage holds when the page loads
SettingsStored ==
    { << >>,
      SetItem(<< >>, "killphilosophy_github_repo", repoGood),
      SetItem(SetItem(<< >>, "killphilosophy_github_repo", repoOther),
              "killphilosophy_github_token", tokenSet) }

InitGitHub ==
    /\ academics = << >>
    /\ noveltyTiles = << >>
    /\ pendingSubmissions = << >>
    /\ favorites = << >>
    /\ localStorage \in SettingsStored
    /\ databaseManagerDefined = TRUE
    /\ apiKey = ""
    /\ isInitialized = FALSE
    /\ searchInProgress = FALSE
    /\ searchDepth = sMedium
    /\ searchCache = << >>
    /\ now = 0
    /\ timers = << >>
    /\ requests = << >>
    /\ promises = << >>
    /\ runs = << >>
    /\ networks = << >>
    /\ handlers = << >>
    /\ deepSearchResults = EmptyPanel
    /\ submissionItems = << >>
    /\ gitHubManager = LoadedSettings(localStorage, 0)
    /\ gitHubCalls = << >>

\* disconnect is taken when the manager holds something to forget
NextGitHub ==
    \/ /\ Len(gitHubCalls) < MaxConnects
       /\ \E repo \in Repos, token \in Tokens : ConnectToRepo(repo, token)
    \/ \E c \in DOMAIN gitHubCalls : GitHubFetchRejects(c)
    \/ \E c \in DOMAIN gitHubCalls, ok \in BOOLEAN : GitHubFetchResponds(c, ok)
    \/ \E c \in DOMAIN gitHubCalls : GitHubJsonSettles(c)
    \/ /\ gitHubManager.isConnected \/ gitHubManager.repoOwner # << >>
       /\ Disconnect

SpecGitHub == InitGitHub /\ [][NextGitHub]_vars

(***************************************************************************)
(* The admin page: it is loaded over a store that holds a queue of pending *)
(* submissions, and the buttons of its items are clicked.                  *)
(***************************************************************************)
\* the longest queue the page is loaded over
MaxQueue == 3

\* the queues of different submissions, MaxQueue at most
RECURSIVE QueuesOf(_)
QueuesOf(n) ==
    IF n = 0 THEN { << >> }
    ELSE QueuesOf(n - 1) \cup
         { Append(q, submission) :
             q \in { r \in QueuesOf(n - 1) : Len(r) = n - 1 },
             submission \in PanelSubmissions }

Queues == { q \in QueuesOf(MaxQueue) : \A i, j \in DOMAIN q : q[i] = q[j] => i = j }

InitAdmin ==
    /\ academics = SampleAcademics
    /\ noveltyTiles = << >>
    /\ pendingSubmissions \in Queues
    /\ favorites = << >>
    /\ localStorage = SavedData(<< >>, academics, noveltyTiles, pendingSubmissions,
                                favorites)
    /\ databaseManagerDefined = TRUE
    /\ apiKey = ""
    /\ isInitialized = FALSE
    /\ searchInProgress = FALSE
    /\ searchDepth = sMedium
    /\ searchCache = << >>
    /\ now = 0
    /\ timers = << >>
    /\ requests = << >>
    /\ promises = << >>
    /\ runs = << >>
    /\ networks = << >>
    /\ handlers = << >>
    /\ deepSearchResults = EmptyPanel
    /\ submissionItems = RenderedItems(pendingSubmissions)
    /\ gitHubManager = LoadedSettings(<< >>, 0)
    /\ gitHubCalls = << >>

NextAdmin ==
    \/ \E k \in DOMAIN submissionItems : ClickApprove(k)
    \/ \E k \in DOMAIN submissionItems : ClickReject(k)

SpecAdmin == InitAdmin /\ [][NextAdmin]_vars

(***************************************************************************)
(* Cache keys: executeSearch is called with queries and depths that hold   *)
(* the character the key is joined with.                                   *)
(***************************************************************************)
qMindDeep == qMind \o << "_" >> \o sDeep
sDeepDeep == sDeep \o << "_" >> \o sDeep

KeyQueries == { qMind, qMindDeep, qLaw }
KeyOptions == { << >>, [depth |-> sDeep], [depth |-> sDeepDeep] }

NextKeys ==
    \/ /\ Len(promises) < MaxCalls
       /\ \E query \in KeyQueries, options \in KeyOptions : ExecuteSearch(query, options)
    \/ \E time \in 0..MaxClock : DemoTimeout(time)

SpecKeys == Init /\ [][NextKeys]_vars

(***************************************************************************)
(* The record store alone: any sequence of its operations from the state   *)
(* the constructor leaves.                                                 *)
(***************************************************************************)
\* the longest queue of pending submissions
MaxPending == 1

\* the most novelty tiles before approvals stop
MaxTiles == 4

NextStore ==
    \/ LoadData
    \/ \E academic \in StoreAcademics : AddOrUpdateAcademic(academic)
    \/ \E name \in StoreNames : DeleteAcademic(name)
    \/ /\ Len(pendingSubmissions) < MaxPending
       /\ \E submission \in Submissions : AddPendingSubmission(submission)
    \/ /\ Len(noveltyTiles) < MaxTiles
       /\ \E index \in 1..(MaxPending + 1) : ApprovePendingSubmission(index)
    \/ \E json \in StoreTexts : ImportDatabase(json)
    \/ ClearDatabase

SpecStore == Init /\ [][NextStore]_vars

(***************************************************************************)
(* Contributions: they are submitted through the form, and approved or     *)
(* rejected from the queue, over the sample data.                          *)
(***************************************************************************)
\* the contributions the form submits
FormSubmissions == { submission \in PanelSubmissions : Has(submission, "data") }

InitForm ==
    /\ InitAdmin
    /\ pendingSubmissions = << >>

NextForm ==
    \/ /\ Len(noveltyTiles) < MaxTiles
       /\ Len(pendingSubmissions) < MaxPending
       /\ \E submission \in FormSubmissions : SubmitContribution(submission)
    \/ /\ Len(noveltyTiles) < MaxTiles
       /\ \E index \in DOMAIN pendingSubmissions : ApprovePendingSubmission(index)
    \/ \E index \in DOMAIN pendingSubmissions : RejectPendingSubmission(index)

SpecForm == InitForm /\ [][NextForm]_vars

(***************************************************************************)
\* a string with no character other than whitespace
OnlyWhitespace(string) == \A i \in DOMAIN string : IsSpace(string[i])

\* the step is a call of executeSearch with the query of the newest promise
IsExecuteSearchCall ==
    /\ Len(promises') = Len(promises) + 1
    /\ promises'[Len(promises')].op = "executeSearch"

\* C1: executeSearch with an empty or whitespace-only query fails with an
\* error before it touches anything: the promise it returns is rejected, no
\* demoSearch timer and no fetch is started, searchInProgress keeps its value,
\* and the search cache and the record store are unchanged.
C1_BlankQueryFailsFast ==
    [][ (IsExecuteSearchCall /\ OnlyWhitespace(promises'[Len(promises')].query))
        => /\ promises'[Len(promises')].state = "rejected"
           /\ UNCHANGED << timers, requests, searchInProgress, searchCache,
                           academics, runs >> ]_vars

\* both an empty and a whitespace-only query have been rejected, one of them
\* with the API key set
C1_Witness ==
    /\ \E i \in DOMAIN promises :
          promises[i].query = qEmpty /\ promises[i].state = "rejected"
    /\ \E i \in DOMAIN promises :
          promises[i].query = qBlank /\ promises[i].state = "rejected"
    /\ isInitialized

\* the runs of the callback that reached resolve(results)
Completed == { k \in DOMAIN runs : ~runs[k].threw }

\* C2: every match a search returns has a score above 0, and the matches
\* returned are in order of non-increasing score.
C2_PositiveNonIncreasing ==
    \A k \in Completed :
        LET matches == runs[k].results.matches
        IN  /\ \A i \in DOMAIN matches : matches[i].score > 0
            /\ \A i, j \in DOMAIN matches :
                   i < j => matches[i].score >= matches[j].score

\* a search has returned three matches or more of a corpus in which an
\* academic with a higher score stands after one with a lower score above 0
C2_Witness ==
    \E k \in Completed :
        /\ Len(runs[k].results.matches) >= 3
        /\ \E i, j \in DOMAIN runs[k].scores :
               /\ i < j
               /\ 0 < runs[k].scores[i]
               /\ runs[k].scores[i] < runs[k].scores[j]

\* C3: whatever the size of the corpus, the result of a search holds at most
\* 10 matches and at most 10 connections.
C3_AtMostTen ==
    \A k \in Completed :
        /\ Len(runs[k].results.matches) <= 10
        /\ Len(runs[k].results.connections) <= 10

\* a search over a corpus with more than 10 matching academics has returned
\* 10 matches and 10 connections
C3_Witness ==
    \E k \in Completed :
        /\ Len(runs[k].matches) > 10
        /\ Len(runs[k].results.matches) = 10
        /\ Len(runs[k].results.connections) = 10

\* B is named in the connections of A, or A in those of B
DirectLink(academicA, academicB) ==
    \/ Has(academicA, "connections") /\ academicB.name \in Range(academicA.connections)
    \/ Has(academicB, "connections") /\ academicA.name \in Range(academicB.connections)

\* A and B have a value in common under one category
SharesTag(academicA, academicB) ==
    /\ Has(academicA, "taxonomies")
    /\ Has(academicB, "taxonomies")
    /\ \E s \in DOMAIN academicA.taxonomies, t \in DOMAIN academicB.taxonomies :
          /\ academicA.taxonomies[s].category = academicB.taxonomies[t].category
          /\ Range(academicA.taxonomies[s].values)
               \cap Range(academicB.taxonomies[t].values) # {}

\* the pairs of ranks among the first five of n matches, the better rank first
TopPairs(n) == { p \in (1..5) \X (1..5) : p[1] < p[2] /\ p[2] <= n }

\* the top pairs of a run whose academics bear the names a and b, in this order
PairsNamed(run, a, b) ==
    { p \in TopPairs(Len(run.matches)) :
        /\ run.matches[p[1]].academic.name = a
        /\ run.matches[p[2]].academic.name = b }

\* the connections of a run that join the names a and b, in this order
ConnectionsNamed(run, a, b) ==
    { c \in DOMAIN run.results.connections :
        /\ run.results.connections[c].academicA = a
        /\ run.results.connections[c].academicB = b }

\* the names of the matches of a run
MatchNames(run) == { run.matches[i].academic.name : i \in DOMAIN run.matches }

\* C4: no connection of a result has isDirectlyConnected not true and no
\* shared taxonomy; and the pairs among the first five matches that are
\* directly connected or share a value under one category are the pairs that
\* yield a connection, one each.
C4_ConnectionIffEvidence ==
    \A k \in Completed :
        /\ \A c \in DOMAIN runs[k].results.connections :
               \/ runs[k].results.connections[c].isDirectlyConnected = "true"
               \/ runs[k].results.connections[c].sharedTaxonomies # << >>
        /\ \A a, b \in MatchNames(runs[k]) :
               Cardinality(ConnectionsNamed(runs[k], a, b))
                 = Cardinality({ p \in PairsNamed(runs[k], a, b) :
                       \/ DirectLink(runs[k].matches[p[1]].academic,
                                     runs[k].matches[p[2]].academic)
                       \/ SharesTag(runs[k].matches[p[1]].academic,
                                    runs[k].matches[p[2]].academic) })

\* a search whose first five matches hold a pair with no evidence, a pair
\* that is only directly connected and a pair that only shares a value
C4_Witness ==
    \E k \in Completed :
        /\ \E p \in TopPairs(Len(runs[k].matches)) :
               /\ ~DirectLink(runs[k].matches[p[1]].academic, runs[k].matches[p[2]].academic)
               /\ ~SharesTag(runs[k].matches[p[1]].academic, runs[k].matches[p[2]].academic)
        /\ \E c \in DOMAIN runs[k].results.connections :
               /\ runs[k].results.connections[c].isDirectlyConnected = "true"
               /\ runs[k].results.connections[c].sharedTaxonomies = << >>
        /\ \E c \in DOMAIN runs[k].results.connections :
               /\ runs[k].results.connections[c].isDirectlyConnected # "true"
               /\ runs[k].results.connections[c].sharedTaxonomies # << >>

\* the academics of a list that have a name
Named(list) == LET WithName(academic) == Has(academic, "name") IN SelectSeq(list, WithName)

\* C5: when the corpus holds an entity without a name, the search skips it
\* and completes: the run does not throw, its promise is fulfilled, and the
\* results are those computed from the entities that have a name.
C5_NamelessEntitySkipped ==
    \A k \in DOMAIN runs :
        (\E i \in DOMAIN runs[k].academics : ~Has(runs[k].academics[i], "name"))
        => /\ ~runs[k].threw
           /\ promises[runs[k].id].state = "fulfilled"
           /\ runs[k].results = DemoResults(runs[k].query, Named(runs[k].academics),
                                            runs[k].results.timestamp)

\* the words of a string: its longest stretches without whitespace
IsWordAt(string, i, j) ==
    /\ i <= j
    /\ \A k \in i..j : ~IsSpace(string[k])
    /\ i = 1 \/ IsSpace(string[i - 1])
    /\ j = Len(string) \/ IsSpace(string[j + 1])

\* a query that is not blank and whose words all have three characters or fewer
OnlyShortWords(query) ==
    /\ ~OnlyWhitespace(query)
    /\ \A i, j \in DOMAIN query : IsWordAt(query, i, j) => j - i + 1 <= 3

\* the summary of a search that found nothing
SummaryOfNothing(query) ==
    << "Found ", 0, " academics and ", 0, " connections related to \"", query,
       "\".\nThe most relevant academic is ", none, "." >>

\* C6: a query that is not blank and whose words all have length 3 or less
\* gives no keyword, and over any corpus the search completes with no match,
\* no connection and a summary that reports zero matches.
C6_ShortWordsFindNothing ==
    \A k \in DOMAIN runs :
        OnlyShortWords(runs[k].query)
        => /\ runs[k].keywords = << >>
           /\ \A i \in DOMAIN runs[k].scores : runs[k].scores[i] = 0
           /\ ~runs[k].threw
           /\ promises[runs[k].id].state = "fulfilled"
           /\ runs[k].results.matches = << >>
           /\ runs[k].results.connections = << >>
           /\ runs[k].results.analysis = SummaryOfNothing(runs[k].query)

\* C7 as stated: a search over an empty corpus, or with no record store,
\* does not fail and yields no match, no connection and the summary
\* "no matches".
C7_SummaryNoMatches ==
    \A k \in DOMAIN runs :
        runs[k].academics = << >>
        => /\ ~runs[k].threw
           /\ promises[runs[k].id].state = "fulfilled"
           /\ runs[k].results.matches = << >>
           /\ runs[k].results.connections = << >>
           /\ runs[k].results.analysis = << "no matches" >>

\* C7, amended: a search over an empty corpus, or with no record store, does
\* not fail and yields no match, no connection and the summary
\* Found 0 academics and 0 connections related to "<query>".
\* The most relevant academic is none.
C7_EmptyCorpusFindsNothing ==
    \A k \in DOMAIN runs :
        runs[k].academics = << >>
        => /\ ~runs[k].threw
           /\ promises[runs[k].id].state = "fulfilled"
           /\ promises[runs[k].id].value = runs[k].results
           /\ runs[k].results.matches = << >>
           /\ runs[k].results.connections = << >>
           /\ runs[k].results.analysis = SummaryOfNothing(runs[k].query)

\* a search with a keyword has completed over the empty store
C7_Witness ==
    \E k \in DOMAIN runs :
        /\ databaseManagerDefined
        /\ runs[k].academics = << >>
        /\ runs[k].keywords # << >>
        /\ promises[runs[k].id].state = "fulfilled"

\* what a run of the callback gives its caller: the results, or nothing when
\* it threw
Output(run) ==
    IF run.threw THEN [resolved |-> FALSE]
    ELSE [resolved |-> TRUE, results |-> run.results]

\* the output of a run without the timestamp of its results
Untimed(run) ==
    IF run.threw THEN [resolved |-> FALSE]
    ELSE [resolved |-> TRUE,
          results  |-> [f \in DOMAIN run.results \ { "timestamp" } |-> run.results[f]]]

\* two runs of the callback with one query over one corpus
SameInputs(i, j) ==
    /\ runs[i].query = runs[j].query
    /\ runs[i].academics = runs[j].academics

Contains(text, token) == includes(toLowerCase(text), token)

\* the (token, value) pairs of an academic in which the value, under any
\* category, contains the token
TagHits(academic, keywords) ==
    IF Has(academic, "taxonomies")
    THEN UNION { { << k, t, v >> :
                     v \in { w \in DOMAIN academic.taxonomies[t].values :
                              Contains(academic.taxonomies[t].values[w], keywords[k]) } } :
                 k \in DOMAIN keywords, t \in DOMAIN academic.taxonomies }
    ELSE {}

\* the (token, title) pairs in which the title of an item contains the token
TitleHits(academic, field, keywords) ==
    IF Has(academic, field)
    THEN { h \in (DOMAIN keywords) \X (DOMAIN academic[field]) :
             Contains(academic[field][h[2]].title, keywords[h[1]]) }
    ELSE {}

\* the score the claim gives an academic for a list of tokens
ScoreFormula(academic, keywords) ==
    (IF \E k \in DOMAIN keywords : Contains(academic.name, keywords[k]) THEN 5 ELSE 0)
    + 2 * Cardinality({ k \in DOMAIN keywords :
                          Has(academic, "bio") /\ Contains(academic.bio, keywords[k]) })
    + 3 * Cardinality(TagHits(academic, keywords))
    + Cardinality(TitleHits(academic, "papers", keywords))
    + Cardinality(TitleHits(academic, "events", keywords))

\* C9: the score of every academic the search scores is 5 if any token is in
\* its lower-cased name, once and not per token, plus 2 per token in its
\* lower-cased bio, plus 3 per (token, tag value) pair with the token in the
\* value, plus 1 per (token, paper title) pair and 1 per (token, event
\* title) pair with the token in the title.
C9_ScoreFormula ==
    \A k \in DOMAIN runs :
        /\ \A i \in DOMAIN runs[k].scores :
               runs[k].scores[i] = ScoreFormula(runs[k].academics[i], runs[k].keywords)
        /\ ~runs[k].threw =>
               \A i \in DOMAIN runs[k].matches :
                   runs[k].matches[i].score
                     = ScoreFormula(runs[k].matches[i].academic, runs[k].keywords)

\* a search has scored an academic whose name contains two of the tokens and
\* whose bio, tags, papers and events add to the 5 of the name
C9_Witness ==
    \E k \in Completed :
        \E i \in DOMAIN runs[k].scores :
            /\ Cardinality({ t \in DOMAIN runs[k].keywords :
                   Contains(runs[k].academics[i].name, runs[k].keywords[t]) }) >= 2
            /\ runs[k].scores[i] > 5
            /\ \E j \in DOMAIN runs[k].scores :
                   /\ TagHits(runs[k].academics[j], runs[k].keywords) # {}
                   /\ TitleHits(runs[k].academics[j], "papers", runs[k].keywords) # {}
            /\ \E j \in DOMAIN runs[k].scores :
                   TitleHits(runs[k].academics[j], "events", runs[k].keywords) # {}

\* C10: every connection of a result joins two distinct matches among the
\* first five, academicA the one ranked before academicB; each pair of the
\* first five matches gives at most one connection; and a match ranked 6th
\* or lower is never an endpoint of a connection.
C10_ConnectionsWithinTopFive ==
    \A k \in Completed :
        LET run == runs[k]
        IN  /\ \A c \in DOMAIN run.results.connections :
                   PairsNamed(run, run.results.connections[c].academicA,
                                   run.results.connections[c].academicB) # {}
            /\ \A a, b \in MatchNames(run) :
                   Cardinality(ConnectionsNamed(run, a, b))
                     <= Cardinality(PairsNamed(run, a, b))
            /\ \A i \in DOMAIN run.matches :
                   (/\ i >= 6
                    /\ \A t \in 1..5 : run.matches[t].academic.name
                                         # run.matches[i].academic.name)
                   => \A c \in DOMAIN run.results.connections :
                          /\ run.results.connections[c].academicA
                               # run.matches[i].academic.name
                          /\ run.results.connections[c].academicB
                               # run.matches[i].academic.name

\* a search with six matches or more, where a match ranked 6th or lower is
\* directly connected to or shares a value with one of the first five, has
\* returned connections
C10_Witness ==
    \E k \in Completed :
        /\ Len(runs[k].matches) >= 6
        /\ runs[k].results.connections # << >>
        /\ \E i \in DOMAIN runs[k].matches, t \in 1..5 :
               /\ i >= 6
               /\ \/ DirectLink(runs[k].matches[t].academic, runs[k].matches[i].academic)
                  \/ SharesTag(runs[k].matches[t].academic, runs[k].matches[i].academic)

\* the matches of a run that bear the names of a connection, in its order
EndpointsOf(run, connection) ==
    { p \in TopPairs(Len(run.matches)) :
        /\ run.matches[p[1]].academic.name = connection.academicA
        /\ run.matches[p[2]].academic.name = connection.academicB }

TagValues(academic, category) ==
    IF Has(academic, "taxonomies")
    THEN UNION { Range(academic.taxonomies[t].values) :
                   t \in { u \in DOMAIN academic.taxonomies :
                             academic.taxonomies[u].category = category } }
    ELSE {}

\* the categories an academic has
Categories(academic) ==
    IF Has(academic, "taxonomies")
    THEN { academic.taxonomies[t].category : t \in DOMAIN academic.taxonomies }
    ELSE {}

\* the evidence is what the claim says for the academics A and B
IsSharedEvidence(evidence, academicA, academicB) ==
    /\ { evidence[e].category : e \in DOMAIN evidence }
         = { category \in Categories(academicA) \cap Categories(academicB) :
               TagValues(academicA, category) \cap TagValues(academicB, category) # {} }
    /\ \A e, f \in DOMAIN evidence :
           evidence[e].category = evidence[f].category => e = f
    /\ \A e \in DOMAIN evidence :
           Range(evidence[e].values)
             = TagValues(academicA, evidence[e].category)
                 \cap TagValues(academicB, evidence[e].category)

\* C12: the shared-tag evidence of every connection has exactly one entry
\* per category that both academics have and under which their values
\* intersect, and the values of the entry are that intersection.
C12_SharedEvidenceIsIntersection ==
    \A k \in Completed :
        \A c \in DOMAIN runs[k].results.connections :
            \E p \in EndpointsOf(runs[k], runs[k].results.connections[c]) :
                IsSharedEvidence(runs[k].results.connections[c].sharedTaxonomies,
                                 runs[k].matches[p[1]].academic,
                                 runs[k].matches[p[2]].academic)

\* a search has returned a connection with evidence under two categories,
\* and one where the academics have a category in common under which they
\* share only some of the values of A
C12_Witness ==
    \E k \in Completed :
        /\ \E c \in DOMAIN runs[k].results.connections :
               Len(runs[k].results.connections[c].sharedTaxonomies) = 2
        /\ \E c \in DOMAIN runs[k].results.connections :
               \E p \in EndpointsOf(runs[k], runs[k].results.connections[c]) :
                   \E category \in Categories(runs[k].matches[p[1]].academic)
                                     \cap Categories(runs[k].matches[p[2]].academic) :
                       /\ TagValues(runs[k].matches[p[1]].academic, category)
                            \cap TagValues(runs[k].matches[p[2]].academic, category)
                            # TagValues(runs[k].matches[p[1]].academic, category)
                       /\ runs[k].results.connections[c].sharedTaxonomies # << >>

\* the categories under which A and B have a value in common
SharedCategories(academicA, academicB) ==
    { category \in Categories(academicA) \cap Categories(academicB) :
        TagValues(academicA, category) \cap TagValues(academicB, category) # {} }

\* C13: the strength of every connection is 5 if its pair is directly
\* connected and 0 if not, plus 2 for each category with shared evidence; a
\* directly connected pair sharing one category has strength 7, and every
\* connection returned has strength 2 or more.
C13_StrengthFormula ==
    \A k \in Completed :
        \A c \in DOMAIN runs[k].results.connections :
            LET connection == runs[k].results.connections[c]
            IN  /\ \E p \in EndpointsOf(runs[k], connection) :
                       LET academicA == runs[k].matches[p[1]].academic
                           academicB == runs[k].matches[p[2]].academic
                       IN  /\ connection.strength
                                = (IF DirectLink(academicA, academicB) THEN 5 ELSE 0)
                                  + 2 * Cardinality(SharedCategories(academicA, academicB))
                           /\ (/\ DirectLink(academicA, academicB)
                               /\ Cardinality(SharedCategories(academicA, academicB)) = 1)
                              => connection.strength = 7
                /\ connection.strength >= 2

\* a search has returned a directly connected pair sharing one category, a
\* pair with shared evidence only, and a pair that is only directly connected
C13_Witness ==
    \E k \in Completed :
        /\ \E c \in DOMAIN runs[k].results.connections :
               /\ runs[k].results.connections[c].isDirectlyConnected = "true"
               /\ Len(runs[k].results.connections[c].sharedTaxonomies) = 1
               /\ runs[k].results.connections[c].strength = 7
        /\ \E c \in DOMAIN runs[k].results.connections :
               /\ runs[k].results.connections[c].isDirectlyConnected # "true"
               /\ runs[k].results.connections[c].strength = 2
        /\ \E c \in DOMAIN runs[k].results.connections :
               runs[k].results.connections[c].strength = 5

\* the pair p of ranks is generated before the pair q: i ascending, then j
GeneratedBefore(p, q) == p[1] < q[1] \/ (p[1] = q[1] /\ p[2] < q[2])

\* C14: the connections of a result are in order of non-increasing strength,
\* and of two connections with one strength the one whose pair the loops
\* generated first comes first.
C14_ConnectionsSortedStable ==
    \A k \in Completed :
        \A c, d \in DOMAIN runs[k].results.connections :
            c < d =>
              /\ runs[k].results.connections[c].strength
                   >= runs[k].results.connections[d].strength
              /\ runs[k].results.connections[c].strength
                   = runs[k].results.connections[d].strength
                 => \E p \in EndpointsOf(runs[k], runs[k].results.connections[c]),
                       q \in EndpointsOf(runs[k], runs[k].results.connections[d]) :
                        GeneratedBefore(p, q)

\* a search has returned three connections of one strength after a stronger
\* one whose pair was generated after the pair of one of them
C14_Witness ==
    \E k \in Completed :
        \E c, d, e, f \in DOMAIN runs[k].results.connections :
            /\ c < d /\ d < e /\ e < f
            /\ runs[k].results.connections[c].strength
                 > runs[k].results.connections[d].strength
            /\ runs[k].results.connections[d].strength
                 = runs[k].results.connections[e].strength
            /\ runs[k].results.connections[e].strength
                 = runs[k].results.connections[f].strength
            /\ \E p \in EndpointsOf(runs[k], runs[k].results.connections[c]),
                  q \in EndpointsOf(runs[k], runs[k].results.connections[d]) :
                   GeneratedBefore(q, p)

\* the identifiers a result refers to: its matches, and its connection ends
NamesOfMatches(results) ==
    IF Has(results, "matches")
    THEN { results.matches[i].name : i \in DOMAIN results.matches } ELSE {}

NamesOfEndpoints(results) ==
    { results.connections[c].academicA : c \in DOMAIN results.connections }
      \cup { results.connections[c].academicB : c \in DOMAIN results.connections }

KeysOf(object) == [i \in DOMAIN object |-> object[i].key]

\* the step is an executeSearch answered from the cache
IsCacheHit ==
    /\ IsExecuteSearchCall
    /\ promises'[Len(promises')].state = "fulfilled"

\* the step fulfils the pending promise of executeSearch call number id
IsSearchSuccess(id) ==
    /\ promises[id].op = "executeSearch"
    /\ promises[id].state = "pending"
    /\ promises'[id].state = "fulfilled"

\* C16: searchCache never holds more than 20 entries when a call has
\* finished; an insertion that takes it past 20 removes the entry inserted
\* earliest and no other; storing under a key the cache has, and a cache hit,
\* change neither the entries nor their order.  The result of a call that
\* succeeds is in the cache when the call has finished.
C16_CacheBoundedFifo ==
    [][ /\ Len(searchCache') <= 20
        /\ \A id \in DOMAIN promises :
               IsSearchSuccess(id) =>
                   \E i \in DOMAIN searchCache', depth \in { sBasic, sMedium, sDeep } :
                       /\ searchCache'[i].key = CacheKey(trim(promises[id].query), depth)
                       /\ searchCache'[i].value = promises'[id].value
        /\ IsCacheHit => searchCache' = searchCache
        /\ searchCache' # searchCache =>
             \E key \in Range(KeysOf(searchCache')) :
                 IF key \in Range(KeysOf(searchCache))
                 THEN KeysOf(searchCache') = KeysOf(searchCache)
                 ELSE IF Len(searchCache) < 20
                 THEN KeysOf(searchCache') = Append(KeysOf(searchCache), key)
                 ELSE KeysOf(searchCache') = Append(Tail(KeysOf(searchCache)), key)
      ]_vars

\* the cache holds 20 entries, the two inserted earliest are gone, and a
\* call was answered from the cache
C16_Witness ==
    /\ Len(searchCache) = 20
    /\ CacheKey(QueryNumber(1), sMedium) \notin Range(KeysOf(searchCache))
    /\ CacheKey(QueryNumber(2), sMedium) \notin Range(KeysOf(searchCache))
    /\ \E i \in DOMAIN promises :
           Has(promises[i], "from") /\ promises[i].from = "cache"
    /\ timers = << >>

\* the depths a search can have
Depths == { sBasic, sMedium, sDeep }

\* the result of a search with this query and depth is in the cache
IsSearchCached(query, depth) ==
    /\ ~OnlyWhitespace(query)
    /\ HasProperty(searchCache, CacheKey(trim(query), depth))

\* C17: while the result of executeSearch(q, d) is in the cache, a later
\* executeSearch with the same trimmed query and depth returns the cached
\* result, starts no demoSearch and no fetch and does not set
\* searchInProgress; and isQueryCached(q, d) and getCachedResults(q, d)
\* agree: the first is true and the second is that result.
C17_CachedSearchIsServed ==
    [][ /\ \A query \in Queries, depth \in Depths :
               IsSearchCached(query, depth) =>
                   /\ isQueryCached(query, depth)
                   /\ getCachedResults(query, depth)
                        = GetProperty(searchCache, CacheKey(trim(query), depth))
        /\ (/\ IsExecuteSearchCall
            /\ Has(promises'[Len(promises')], "depth")
            /\ IsSearchCached(promises'[Len(promises')].query,
                              promises'[Len(promises')].depth))
           => /\ promises'[Len(promises')].state = "fulfilled"
              /\ promises'[Len(promises')].value
                   = GetProperty(searchCache,
                         CacheKey(trim(promises'[Len(promises')].query),
                                  promises'[Len(promises')].depth))
              /\ UNCHANGED << timers, requests, searchInProgress, searchCache >>
      ]_vars

\* the step belongs to a search: a call of executeSearch or demoSearch, a
\* step of its fetch, a run of the demoSearch callback, or a call of
\* convertToNetworkData
IsSearchStep ==
    \/ promises' # promises
    \/ timers' # timers
    \/ requests' # requests
    \/ runs' # runs
    \/ networks' # networks

HighestScore(matches) ==
    CHOOSE s \in { matches[i].score : i \in DOMAIN matches } :
        \A i \in DOMAIN matches : matches[i].score <= s

\* a relevance "w.t%" as a number of tenths of a percent
Tenths(relevance) == 10 * relevance[1] + relevance[3]

\* the relevance is 100 * score / max to one decimal place: a tenth of a
\* percent no farther from it than half a tenth
IsRelevanceOf(relevance, score, max) ==
    /\ Len(relevance) = 4
    /\ relevance[2] = "."
    /\ relevance[3] \in 0..9
    /\ relevance[4] = "%"
    /\ 2 * (Tenths(relevance) * max - 1000 * score) <= max
    /\ 2 * (1000 * score - Tenths(relevance) * max) <= max

\* every match of the results has the relevance of its score, the first one
\* 100.0%; with no match the results are returned all the same
RelevanceIsRatio(k) ==
    LET matches == runs[k].results.matches
    IN  /\ promises[runs[k].id].state = "fulfilled"
        /\ \A i \in DOMAIN matches :
               IsRelevanceOf(matches[i].relevance, matches[i].score, HighestScore(matches))
        /\ matches # << >> => matches[1].relevance = << 100, ".", 0, "%" >>

\* C19 as stated: each relevance is 100 * score / (highest score of the
\* result set) to one decimal place, the first is 100.0%, and every
\* relevance lies in (0, 100]; an empty result set gives no error.
C19_RelevanceAboveZero ==
    \A k \in Completed :
        /\ RelevanceIsRatio(k)
        /\ \A i \in DOMAIN runs[k].results.matches :
               /\ Tenths(runs[k].results.matches[i].relevance) > 0
               /\ Tenths(runs[k].results.matches[i].relevance) <= 1000

\* C19, amended: each relevance is 100 * score / (highest score of the
\* result set) to one decimal place, the first is 100.0%, and every
\* relevance lies in [0, 100]: it is 0.0% for a match whose score is less
\* than 1/2000 of the highest; an empty result set gives no error.
C19_RelevanceRounded ==
    \A k \in Completed :
        /\ RelevanceIsRatio(k)
        /\ \A i \in DOMAIN runs[k].results.matches :
               /\ Tenths(runs[k].results.matches[i].relevance) >= 0
               /\ Tenths(runs[k].results.matches[i].relevance) <= 1000
               /\ Tenths(runs[k].results.matches[i].relevance) = 0
                    <=> 2000 * runs[k].results.matches[i].score
                          < HighestScore(runs[k].results.matches)

\* a search has returned a first match at 100.0% and a match at 0.0%
C19_Witness ==
    \E k \in Completed :
        \E i \in DOMAIN runs[k].results.matches :
            /\ runs[k].results.matches[1].relevance = << 100, ".", 0, "%" >>
            /\ runs[k].results.matches[i].relevance = << 0, ".", 0, "%" >>

(***************************************************************************)
(* C20  After any sequence of store operations (addOrUpdateAcademic,       *)
(* deleteAcademic, approvePendingSubmission, importDatabase,               *)
(* clearDatabase, loadData) no two stored academics have the same name.    *)
(***************************************************************************)
C20_NamesUnique ==
    \A i, j \in DOMAIN academics :
        (/\ i # j
         /\ Has(academics[i].value, "name")
         /\ Has(academics[j].value, "name"))
        => academics[i].value.name # academics[j].value.name

(***************************************************************************)
(* C21  Upsert and lookup: after addOrUpdateAcademic(a) returns true,      *)
(* getAcademic(a.name) returns a, and goes on returning it until an        *)
(* addOrUpdateAcademic of the same name, deleteAcademic(a.name),           *)
(* importDatabase or clearDatabase; an addOrUpdateAcademic of another name *)
(* neither removes nor replaces a; without a name addOrUpdateAcademic      *)
(* returns false and changes nothing.                                      *)
(***************************************************************************)
\* getAcademic(name) on the store returns the academic
Returns(object, name, academic) ==
    /\ ~getAcademic(object, name).threw
    /\ getAcademic(object, name).index # 0
    /\ object[getAcademic(object, name).index].value = academic

\* the stored academics that have a name
StoredNamed ==
    { academics[i].value : i \in { k \in DOMAIN academics : ~LacksName(academics[k].value) } }

\* getAcademic(a.name) returns a after the step if it did before
StillReturned(a) ==
    Returns(academics, a.name, a) => Returns(academics', a.name, a)

C21_UpsertRoundTrip ==
    [][ /\ \A academic \in StoreAcademics :
               AddOrUpdateAcademic(academic) =>
                   IF LacksName(academic)
                   THEN UNCHANGED << dbVars, localStorage >>
                   ELSE /\ Returns(academics', academic.name, academic)
                        /\ \A a \in StoredNamed :
                               a.name # academic.name => StillReturned(a)
        /\ (LoadData \/ \E submission \in Submissions : AddPendingSubmission(submission))
               => \A a \in StoredNamed : StillReturned(a)
        /\ \A name \in StoreNames :
               DeleteAcademic(name) =>
                   \A a \in StoredNamed : a.name # name => StillReturned(a)
      ]_vars

(***************************************************************************)
(* C22  isSearching() is true at every moment between a call of            *)
(* executeSearch that misses the cache and the settling of its promise,    *)
(* however the calls overlap: it is false only when no search is pending.  *)
(***************************************************************************)
\* isSearching()
isSearching == searchInProgress

\* the calls of executeSearch whose promise has not settled
PendingSearches ==
    { id \in DOMAIN promises :
        promises[id].op = "executeSearch" /\ promises[id].state = "pending" }

C22_SearchingWhilePending == PendingSearches # {} => isSearching

(***************************************************************************)
(* C23  When a search through the remote API fails, fetch rejecting or the *)
(* response being not ok, executeSearch rejects with that error after the  *)
(* one request it made, caches nothing, and searchInProgress is false when *)
(* it has settled.  A request is made only by a call of executeSearch, one *)
(* a call.                                                                 *)
(***************************************************************************)
\* the request fails in this step: its fetch rejects, or the body of a
\* response that was not ok has been read
RequestFails(i) ==
    /\ requests[i].stage \in { "fetch", "errorJson" }
    /\ \A j \in DOMAIN requests' : requests'[j].id # requests[i].id

C23_RemoteFailureRejectsOnce ==
    [][ /\ \A i \in DOMAIN requests :
               RequestFails(i) =>
                   /\ promises[requests[i].id].state = "pending"
                   /\ promises'[requests[i].id].state = "rejected"
                   /\ promises'[requests[i].id].value
                        = (IF requests[i].stage = "fetch" THEN "fetch failed"
                           ELSE "API request failed")
                   /\ searchCache' = searchCache
                   /\ searchInProgress' = FALSE
                   /\ Len(requests') = Len(requests) - 1
        /\ Len(requests') > Len(requests) =>
               /\ Len(requests') = Len(requests) + 1
               /\ Len(promises') = Len(promises) + 1
               /\ requests'[Len(requests')].id = Len(promises')
        /\ \A i, j \in DOMAIN requests' :
               requests'[i].id = requests'[j].id => i = j
      ]_vars

\* two searches through the remote API have failed, one by its fetch and one
\* by its response, and nothing is cached
C23_Witness ==
    /\ \E i \in DOMAIN promises :
           promises[i].state = "rejected" /\ promises[i].value = "fetch failed"
    /\ \E i \in DOMAIN promises :
           promises[i].state = "rejected" /\ promises[i].value = "API request failed"
    /\ searchCache = << >>
    /\ ~searchInProgress
    /\ requests = << >>

(***************************************************************************)
(* C24  The click handler discards the results of superseded calls: when   *)
(* the button was clicked for q1 and again for q2 before the search for q1 *)
(* settled, the panel shows the results of q2 once both have settled, in   *)
(* every order of completion.                                              *)
(***************************************************************************)
\* every click's search has settled and its handler has resumed
AllHandlersDone ==
    /\ handlers # << >>
    /\ \A h \in DOMAIN handlers : handlers[h].resumed

\* the handler of the last click
LastHandler == handlers[Len(handlers)]

\* the panel unless a later click found the input blank
C24_PanelShowsLastQuery ==
    (AllHandlersDone /\ deepSearchResults # ErrorPanel("Please enter a search query")) =>
        IF promises[LastHandler.id].state = "fulfilled"
        THEN deepSearchResults = ResultsPanel(LastHandler.query,
                                              promises[LastHandler.id].value)
        ELSE deepSearchResults = ErrorPanel(promises[LastHandler.id].value)

(***************************************************************************)
(* C25  From a GitHub manager that is not connected, connectToRepo(repo,   *)
(* token) with a well-formed "owner/repo" whose request is answered        *)
(* successfully returns true, leaves isGitHubConnected() true and has      *)
(* saved the settings; it returns false, with isConnected false, only for  *)
(* a malformed repo or a request that failed.                              *)
(***************************************************************************)
\* "owner/repo" with an owner and a repository name
IsWellFormed(repo) ==
    /\ repo # << >>
    /\ HasSlash(repo)
    /\ OwnerOf(repo) # << >>
    /\ NameOf(repo) # << >>

\* call c of connectToRepo returns in this step
ConnectReturns(c) ==
    /\ gitHubCalls'[c].state = "fulfilled"
    /\ c \in DOMAIN gitHubCalls => gitHubCalls[c].state # "fulfilled"

\* isGitHubConnected() after the step
isGitHubConnected == gitHubManager'.isConnected

C25_ConnectFromDisconnected ==
    [][ \A c \in DOMAIN gitHubCalls' :
            (ConnectReturns(c) /\ ~gitHubCalls'[c].wasConnected) =>
                /\ gitHubCalls'[c].request = "ok" =>
                       /\ gitHubCalls'[c].value = TRUE
                       /\ isGitHubConnected
                       /\ "killphilosophy_github_repo" \in DOMAIN localStorage'
                /\ gitHubCalls'[c].value = FALSE =>
                       /\ ~isGitHubConnected
                       /\ \/ ~IsWellFormed(gitHubCalls'[c].repo)
                          \/ gitHubCalls'[c].request = "failed"
      ]_vars

(***************************************************************************)
(* C26  In the pending-submissions panel, whatever Approve and Reject      *)
(* buttons were clicked before, a click approves or rejects the submission *)
(* shown in the item clicked and no other: that submission leaves the      *)
(* queue and the item leaves the panel.  With an index out of range        *)
(* approve and reject return false and leave queue and academics alone.    *)
(***************************************************************************)
\* the submission of item k leaves the queue, and item k the panel
ItemLeaves(k) ==
    /\ \E i \in DOMAIN pendingSubmissions :
           /\ pendingSubmissions[i] = submissionItems[k].submission
           /\ pendingSubmissions' = Splice(pendingSubmissions, i)
    /\ submissionItems' = Splice(submissionItems, k)

C26_ClickActsOnItemShown ==
    [][ /\ \A k \in DOMAIN submissionItems :
               (ClickApprove(k) \/ ClickReject(k)) => ItemLeaves(k)
        /\ \A k \in DOMAIN submissionItems :
               (/\ ClickApprove(k) \/ ClickReject(k)
                /\ submissionItems[k].index + 1 \notin DOMAIN pendingSubmissions)
               => UNCHANGED << pendingSubmissions, academics >>
      ]_vars

(***************************************************************************)
(* C27  A paper or event contribution submitted through the form and then  *)
(* approved from the queue is in the academic's papers or events once;     *)
(* rejected instead, it is not there.  So when none is waiting in the      *)
(* queue, the academic holds the paper or event as many times as it was    *)
(* approved.                                                               *)
(***************************************************************************)
\* how many elements of the array are the value
CountOf(array, value) == Cardinality({ i \in DOMAIN array : array[i] = value })

\* how many times the stored academics of the submission's name hold its
\* paper or event
Held(submission) ==
    LET field == IF submission.data.type = "paper" THEN "papers" ELSE "events"
        value == IF submission.data.type = "paper" THEN submission.data.paper
                 ELSE submission.data.event
        first == FirstNamed(academics, submission.academicName)
    IN  IF first = 0 THEN 0 ELSE CountOf(ArrayOf(academics[first].value, field), value)

\* how many times the submission was approved: the tiles of its approvals
ApprovalsOf(submission) ==
    Cardinality({ i \in DOMAIN noveltyTiles :
                    noveltyTiles[i].content = ContributionTile(submission, 0).content })

C27_HeldOncePerApproval ==
    \A submission \in { PaperSubmission, EventSubmission } :
        ~arrayIncludes(pendingSubmissions, submission)
            => Held(submission) = ApprovalsOf(submission)

(***************************************************************************)
(* C28  Persistence: in every state of the store that has been saved,      *)
(* saveData followed by loadData on a fresh DatabaseManager restores the   *)
(* same academics, noveltyTiles, pendingSubmissions and favorites; after   *)
(* clearDatabase a reload yields an empty database.                        *)
(***************************************************************************)
\* an item of the storage parsed, or what the constructor leaves
FreshItem(storage, item) ==
    IF item \in DOMAIN storage THEN Parse(storage[item]) ELSE << >>

\* the fields of a fresh DatabaseManager after loadData over the storage
Reloaded(storage) ==
    IF Len(FreshItem(storage, "killphilosophy_academics")) = 0
    THEN [academics          |-> SampleAcademics,
          noveltyTiles       |-> SampleTiles(now),
          pendingSubmissions |-> FreshItem(storage, "killphilosophy_submissions"),
          favorites          |-> FreshItem(storage, "killphilosophy_favorites")]
    ELSE [academics          |-> FreshItem(storage, "killphilosophy_academics"),
          noveltyTiles       |-> FreshItem(storage, "killphilosophy_novelties"),
          pendingSubmissions |-> FreshItem(storage, "killphilosophy_submissions"),
          favorites          |-> FreshItem(storage, "killphilosophy_favorites")]

C28_ReloadRestores ==
    "killphilosophy_academics" \in DOMAIN localStorage =>
        Reloaded(Saved(academics, noveltyTiles, pendingSubmissions, favorites))
          = [academics          |-> academics,
             noveltyTiles       |-> noveltyTiles,
             pendingSubmissions |-> pendingSubmissions,
             favorites          |-> favorites]

(***************************************************************************)
(* C29  Two different pairs of trimmed query and depth never share a cache *)
(* entry: a call of executeSearch is answered from the cache only with the *)
(* result of an earlier search of the same trimmed query at the same       *)
(* depth, whatever strings the caller passes.                              *)
(***************************************************************************)
\* call i was answered from the cache
IsFromCache(i) == Has(promises[i], "from") /\ promises[i].from = "cache"

\* call j searched, and its result is what call i was given
IsSourceOf(j, i) ==
    /\ promises[j].op = "executeSearch"
    /\ promises[j].state = "fulfilled"
    /\ ~IsFromCache(j)
    /\ promises[j].value = promises[i].value

C29_CacheHitOfSamePair ==
    \A i \in DOMAIN promises :
        IsFromCache(i) =>
            \E j \in 1..(i - 1) :
                /\ IsSourceOf(j, i)
                /\ trim(promises[j].query) = trim(promises[i].query)
                /\ promises[j].depth = promises[i].depth

(***************************************************************************)
(* C30  Every token used for scoring is a non-empty string, so that an     *)
(* academic scores above zero only when one of its fields contains a word  *)
(* of the query; a query whose words are made of non-word characters only, *)
(* such as "????", matches no academic.                                    *)
(***************************************************************************)
\* the query holds whitespace and non-word characters only
OnlyNonWordCharacters(query) ==
    \A i \in DOMAIN query : IsSpace(query[i]) \/ ~IsWordChar(query[i])

C30_TokensNonEmpty ==
    \A k \in DOMAIN runs :
        /\ \A i \in DOMAIN runs[k].keywords : runs[k].keywords[i] # << >>
        /\ OnlyNonWordCharacters(runs[k].query) =>
               /\ \A i \in DOMAIN runs[k].scores : runs[k].scores[i] = 0
               /\ ~runs[k].threw => runs[k].results.matches = << >>

====
